---- MODULE Spec2Model ----
(***************************************************************************)
(* Feed acquisition and caching pipeline of planet-go: the file cache      *)
(* (internal/cache), the sequential and the worker-pool fetcher            *)
(* (internal/fetcher) and the way they are driven over several runs.       *)
(***************************************************************************)
EXTENDS Integers, Sequences, FiniteSets, Bags, TLC

(***************************************************************************)
(* Bounds of the model.                                                    *)
(***************************************************************************)
MaxFeeds == 2       \* longest list of sources handed to FetchFeeds
MaxWorkers == 2     \* largest configured parallel_workers
MaxRuns == 2        \* number of consecutive runs over the same cache
MaxFaults == 1      \* cache I/O failures injected in one behaviour

(***************************************************************************)
(* Characters and URLs.  A URL is a sequence of one-character strings.     *)
(***************************************************************************)
Letters ==
    {"a","b","c","d","e","f","g","h","i","j","k","l","m",
     "n","o","p","q","r","s","t","u","v","w","x","y","z",
     "A","B","C","D","E","F","G","H","I","J","K","L","M",
     "N","O","P","Q","R","S","T","U","V","W","X","Y","Z"}

Digits == {"0","1","2","3","4","5","6","7","8","9"}

HexDigits == Digits \cup {"a","b","c","d","e","f","A","B","C","D","E","F"}

\* http://a
URL_A == <<"h","t","t","p",":","/","/","a">>
\* http://a/  (differs from URL_A only by the trailing slash)
URL_A2 == <<"h","t","t","p",":","/","/","a","/">>
\* https://a  (differs from URL_A only by the scheme)
URL_A3 == <<"h","t","t","p","s",":","/","/","a">>
\* http://b
URL_B == <<"h","t","t","p",":","/","/","b">>
\* http://%  (passes the configuration loader, rejected by net/url)
URL_BAD == <<"h","t","t","p",":","/","/","%">>

URLs == {URL_A, URL_A2, URL_A3, URL_B, URL_BAD}

(***************************************************************************)
(* cache.sanitizeURL, step by step.                                        *)
(***************************************************************************)
\* regexp `^[a-zA-Z][a-zA-Z0-9+.-]*://` replaced by ""
StripScheme(u) ==
    LET n == Len(u)
        IsSchemeChar(c) == c \in Letters \cup Digits \cup {"+", ".", "-"}
        RunEnd == CHOOSE j \in 1..n :
                     /\ \A i \in 2..j : IsSchemeChar(u[i])
                     /\ (j = n \/ ~IsSchemeChar(u[j+1]))
    IN  IF /\ n >= 1
           /\ u[1] \in Letters
           /\ RunEnd + 3 <= n
           /\ u[RunEnd+1] = ":"
           /\ u[RunEnd+2] = "/"
           /\ u[RunEnd+3] = "/"
        THEN SubSeq(u, RunEnd + 4, n)
        ELSE u

\* strings.TrimSuffix(url, "/")
TrimSuffix(u, c) ==
    IF Len(u) >= 1 /\ u[Len(u)] = c THEN SubSeq(u, 1, Len(u) - 1) ELSE u

\* regexp `[^a-zA-Z0-9._-]` replaced by "-"
ReplaceInvalid(u) ==
    [i \in 1..Len(u) |->
        IF u[i] \in Letters \cup Digits \cup {".", "_", "-"} THEN u[i] ELSE "-"]

\* regexp `-+` replaced by "-"
CollapseDashes(u) ==
    LET marked == [i \in 1..Len(u) |->
                      [ch |-> u[i],
                       inRun |-> i > 1 /\ u[i] = "-" /\ u[i-1] = "-"]]
        Starts(m) == ~m.inRun
        kept == SelectSeq(marked, Starts)
    IN  [i \in 1..Len(kept) |-> kept[i].ch]

\* strings.Trim(url, "-")
RECURSIVE TrimLeft(_, _)
TrimLeft(u, c) ==
    IF Len(u) >= 1 /\ u[1] = c THEN TrimLeft(Tail(u), c) ELSE u

RECURSIVE TrimRight(_, _)
TrimRight(u, c) ==
    IF Len(u) >= 1 /\ u[Len(u)] = c
    THEN TrimRight(SubSeq(u, 1, Len(u) - 1), c) ELSE u

Trim(u, c) == TrimRight(TrimLeft(u, c), c)

\* the length cap of a cache file name
MaxKeyLen == 200

\* a cut that leaves a dash at the end
TruncateWithoutTrim(u) ==
    IF Len(u) > MaxKeyLen THEN SubSeq(u, 1, MaxKeyLen) ELSE u

Truncate(u) ==
    IF Len(u) > MaxKeyLen THEN TrimSuffix(SubSeq(u, 1, MaxKeyLen), "-") ELSE u

sanitizeURL(url) ==
    Truncate(Trim(CollapseDashes(ReplaceInvalid(TrimSuffix(StripScheme(url), "/"))), "-"))

cachePath(feedURL) == sanitizeURL(feedURL) \o <<".", "j", "s", "o", "n">>

\* the record files a run over URLs can touch
Paths == {cachePath(u) : u \in URLs}

(***************************************************************************)
(* http.NewRequestWithContext fails exactly when net/url rejects the URL;  *)
(* of net/url's rules the one the URLs above exercise is the percent       *)
(* escape: "%" must be followed by two hex digits.                         *)
(***************************************************************************)
ParsesAsURL(u) ==
    \A i \in 1..Len(u) :
        u[i] = "%" => /\ i + 2 <= Len(u)
                      /\ u[i+1] \in HexDigits
                      /\ u[i+2] \in HexDigits

(***************************************************************************)
(* Go slices: nil and empty are different values and JSON keeps the        *)
(* difference (null against []).                                           *)
(***************************************************************************)
NilSlice == [isNil |-> TRUE, elems |-> <<>>]
Slice(s) == [isNil |-> FALSE, elems |-> s]

(***************************************************************************)
(* cache.Metadata, cache.CachedFeed and the record file of one source.     *)
(* LastFetched is a logical clock (the number of the run); 0 is the zero   *)
(* time.Time.                                                              *)
(***************************************************************************)
ZeroMetadata == [LastFetched |-> 0, ETag |-> "", LastModified |-> ""]

Metadata(now, etag, lastModified) ==
    [LastFetched |-> now, ETag |-> etag, LastModified |-> lastModified]

\* the zero value `var cached CachedFeed`
ZeroCachedFeed == [Metadata |-> ZeroMetadata, Entries |-> NilSlice]

\* a file of the cache directory: missing, not valid JSON, or a CachedFeed
AbsentFile == [state |-> "absent", feed |-> ZeroCachedFeed]
CorruptFile == [state |-> "corrupt", feed |-> ZeroCachedFeed]
RecordFile(cached) == [state |-> "ok", feed |-> cached]

(***************************************************************************)
(* json.MarshalIndent followed by json.Unmarshal.  A file is modelled by   *)
(* the value json.Unmarshal reads from it.  encoding/json writes a nil     *)
(* slice as null and an empty one as [], and coerces every string to valid *)
(* UTF-8: a byte that is not part of a valid encoding is written as the    *)
(* replacement character U+FFFD.                                           *)
(***************************************************************************)
\* a Go string holding the single byte 0xFF, and what json makes of it
InvalidUTF8 == "0xFF"
ReplacementChar == "U+FFFD"

ValidUTF8(str) == str # InvalidUTF8

MarshalString(str) == IF ValidUTF8(str) THEN str ELSE ReplacementChar

\* a text is a sequence of characters, each a string of its own
MarshalText(text) == [i \in 1..Len(text) |-> MarshalString(text[i])]

MarshalEntries(entries) ==
    [isNil |-> entries.isNil,
     elems |-> [i \in 1..Len(entries.elems) |->
                  [entries.elems[i] EXCEPT !.ID = MarshalString(@),
                                           !.Title = MarshalText(@),
                                           !.Content = MarshalText(@)]]]

ValidText(text) == \A i \in 1..Len(text) : ValidUTF8(text[i])

ValidEntries(entries) ==
    \A i \in 1..Len(entries.elems) :
        /\ ValidUTF8(entries.elems[i].ID)
        /\ ValidText(entries.elems[i].Title)
        /\ ValidText(entries.elems[i].Content)

MarshalMetadata(meta) ==
    [meta EXCEPT !.ETag = MarshalString(@), !.LastModified = MarshalString(@)]

MarshalCachedFeed(cached) ==
    [Metadata |-> MarshalMetadata(cached.Metadata),
     Entries |-> MarshalEntries(cached.Entries)]

\* outcome of the file system call of a cache operation
IOOutcomes(faulty) == IF faulty THEN {"ok", "fail"} ELSE {"ok"}

\* a SaveEntries that adds the entries to those of the record it finds
SaveEntriesAppending(c, feedURL, entries, now, io) ==
    LET f == c[cachePath(feedURL)]
        old == IF f.state = "ok" THEN f.feed.Entries.elems ELSE <<>>
    IN  IF io = "fail"
        THEN [cache |-> c, err |-> TRUE]
        ELSE [cache |-> [c EXCEPT ![cachePath(feedURL)] =
                            RecordFile(MarshalCachedFeed(
                                [Metadata |-> Metadata(now, "", ""),
                                 Entries |-> Slice(old \o entries.elems)]))],
              err |-> FALSE]

\* SaveEntries: a whole new record with a fresh LastFetched and no tag
SaveEntries(c, feedURL, entries, now, io) ==
    IF io = "fail"
    THEN [cache |-> c, err |-> TRUE]
    ELSE [cache |-> [c EXCEPT ![cachePath(feedURL)] =
                        RecordFile(MarshalCachedFeed(
                            [Metadata |-> Metadata(now, "", ""),
                             Entries |-> entries]))],
          err |-> FALSE]

\* LoadEntries: (nil, nil) for a missing file, (nil, err) for an unreadable
\* or malformed one
LoadEntries(c, feedURL, io) ==
    LET f == c[cachePath(feedURL)]
    IN  IF io = "fail" THEN [entries |-> NilSlice, err |-> TRUE]
        ELSE IF f.state = "absent" THEN [entries |-> NilSlice, err |-> FALSE]
        ELSE IF f.state = "corrupt" THEN [entries |-> NilSlice, err |-> TRUE]
        ELSE [entries |-> f.feed.Entries, err |-> FALSE]

(***************************************************************************)
(* LoadAll.  filepath.Glob returns the names of the directory that match   *)
(* *.json in byte order (it sorts them); a file os.ReadFile cannot read    *)
(* and a file json.Unmarshal rejects are skipped.                          *)
(***************************************************************************)
\* the bytes file names are made of, in increasing order
ByteOrder ==
    <<"-", ".", "0", "1", "2", "3", "4", "5", "6", "7", "8", "9",
      "A", "B", "C", "D", "E", "F", "G", "H", "I", "J", "K", "L", "M",
      "N", "O", "P", "Q", "R", "S", "T", "U", "V", "W", "X", "Y", "Z",
      "a", "b", "c", "d", "e", "f", "g", "h", "i", "j", "k", "l", "m",
      "n", "o", "p", "q", "r", "s", "t", "u", "v", "w", "x", "y", "z">>

ByteOf(ch) == CHOOSE i \in 1..Len(ByteOrder) : ByteOrder[i] = ch

\* p < q as Go compares strings
RECURSIVE StringLess(_, _)
StringLess(p, q) ==
    IF q = <<>> THEN FALSE
    ELSE IF p = <<>> THEN TRUE
    ELSE IF Head(p) # Head(q) THEN ByteOf(Head(p)) < ByteOf(Head(q))
    ELSE StringLess(Tail(p), Tail(q))

\* sort.Strings over a set of names
RECURSIVE SortStrings(_)
SortStrings(names) ==
    IF names = {} THEN <<>>
    ELSE LET least == CHOOSE p \in names :
                         \A q \in names \ {p} : StringLess(p, q)
         IN  <<least>> \o SortStrings(names \ {least})

\* filepath.Glob(filepath.Join(c.directory, "*.json"))
Glob(c) == SortStrings({p \in Paths : c[p].state # "absent"})

\* a loop that gives up at the first file it cannot use
RECURSIVE LoadAllLoopUntilBad(_, _, _)
LoadAllLoopUntilBad(c, unreadable, paths) ==
    IF paths = <<>> THEN <<>>
    ELSE IF Head(paths) \in unreadable THEN <<>>
    ELSE IF c[Head(paths)].state = "corrupt" THEN <<>>
    ELSE c[Head(paths)].feed.Entries.elems
         \o LoadAllLoopUntilBad(c, unreadable, Tail(paths))

\* the loop of LoadAll over the paths left: the entries appended
RECURSIVE LoadAllLoop(_, _, _)
LoadAllLoop(c, unreadable, paths) ==
    IF paths = <<>> THEN <<>>
    ELSE IF Head(paths) \in unreadable
    THEN LoadAllLoop(c, unreadable, Tail(paths))
    ELSE IF c[Head(paths)].state = "corrupt"
    THEN LoadAllLoop(c, unreadable, Tail(paths))
    ELSE c[Head(paths)].feed.Entries.elems
         \o LoadAllLoop(c, unreadable, Tail(paths))

\* LoadAll: `var allEntries []Entry` stays nil until an entry is appended
LoadAll(c, unreadable) ==
    LET all == LoadAllLoop(c, unreadable, Glob(c))
    IN  [entries |-> IF all = <<>> THEN NilSlice ELSE Slice(all),
         err |-> FALSE]

\* a SaveMetadata that starts from the zero CachedFeed without reading the
\* file
SaveMetadataWithoutLoad(c, feedURL, io) == ZeroCachedFeed

\* SaveMetadata, first half: `var cached CachedFeed`, filled from the file
\* when it can be read; read and decode errors are ignored
SaveMetadataLoad(c, feedURL, io) ==
    LET f == c[cachePath(feedURL)]
    IN  IF io = "ok" /\ f.state = "ok" THEN f.feed ELSE ZeroCachedFeed

\* SaveMetadata, second half: cached.Metadata = meta, then the file is
\* written back
SaveMetadataStore(c, feedURL, cached, meta, io) ==
    IF io = "fail"
    THEN [cache |-> c, err |-> TRUE]
    ELSE [cache |-> [c EXCEPT ![cachePath(feedURL)] =
                        RecordFile(MarshalCachedFeed([cached EXCEPT !.Metadata = meta]))],
          err |-> FALSE]

\* SaveMetadata as one call
SaveMetadata(c, feedURL, meta, ioRead, ioWrite) ==
    SaveMetadataStore(c, feedURL, SaveMetadataLoad(c, feedURL, ioRead), meta, ioWrite)

\* LoadMetadata: (nil, nil) for a missing file, (nil, err) for an unreadable
\* or malformed one, else a pointer to the record's metadata
LoadMetadata(c, feedURL, io) ==
    LET f == c[cachePath(feedURL)]
    IN  IF io = "fail" THEN [present |-> FALSE, meta |-> ZeroMetadata, err |-> TRUE]
        ELSE IF f.state = "absent"
        THEN [present |-> FALSE, meta |-> ZeroMetadata, err |-> FALSE]
        ELSE IF f.state = "corrupt"
        THEN [present |-> FALSE, meta |-> ZeroMetadata, err |-> TRUE]
        ELSE [present |-> TRUE, meta |-> f.feed.Metadata, err |-> FALSE]

(***************************************************************************)
(* What the network and the parser can answer to one request.              *)
(***************************************************************************)
StatusOK == 200
StatusNotModified == 304
\* the statuses a server answers with: fresh, not modified, and another one
StatusCodes == {StatusOK, StatusNotModified, 500}

\* gofeed.Item: GUID, the texts (sequences of characters) and the two
\* optional timestamps (0 is a nil pointer)
Item(guid, title, content, description, published, updated) ==
    [GUID |-> guid, Title |-> title, Content |-> content,
     Description |-> description,
     PublishedParsed |-> published, UpdatedParsed |-> updated]

\* what a 200 response carries: the parsed feed and the validators
Documents ==
    { [Items |-> <<>>, UpdatedParsed |-> 0, ETag |-> "", LastModified |-> ""],
      [Items |-> <<Item("g2", <<"a">>, <<>>, <<"b">>, 0, 0),
                   Item("g1", <<"b">>, <<"a">>, <<"b">>, 5, 6)>>,
       UpdatedParsed |-> 0,
       ETag |-> "e1", LastModified |-> "d1"] }

NoDocument == [Items |-> <<>>, UpdatedParsed |-> 0, ETag |-> "", LastModified |-> ""]

Response(failed, status, bodyRead, parsed, doc) ==
    [err |-> failed, StatusCode |-> status, bodyRead |-> bodyRead,
     parsed |-> parsed, doc |-> doc]

NoResponse == Response(FALSE, 0, FALSE, FALSE, NoDocument)

Responses ==
    {Response(TRUE, 0, FALSE, FALSE, NoDocument)}
    \cup {Response(FALSE, s, FALSE, FALSE, NoDocument) : s \in StatusCodes}
    \cup {Response(FALSE, StatusOK, TRUE, FALSE, NoDocument)}
    \cup {Response(FALSE, StatusOK, TRUE, TRUE, d) : d \in Documents}

\* the times a parsed feed carries, of an item and of the channel: later
\* than every time of the clock
Published == MaxRuns + 3
Updated == Published + 1
ChannelUpdated == Updated + 1

(***************************************************************************)
(* fetcher.FetchResult and convertEntries.                                 *)
(***************************************************************************)
FetchResult(url, entries, isCached, error) ==
    [URL |-> url, Entries |-> entries, Cached |-> isCached, Error |-> error]

NoResult == FetchResult(<<>>, NilSlice, FALSE, "")

\* a date that never looks at the channel
EntryDateWithoutChannel(item, doc) ==
    IF item.PublishedParsed # 0 THEN item.PublishedParsed
    ELSE item.UpdatedParsed

\* the date of one entry: published, else updated, else the channel's
\* updated time, else the zero time
EntryDate(item, doc) ==
    IF item.PublishedParsed # 0 THEN item.PublishedParsed
    ELSE IF item.UpdatedParsed # 0 THEN item.UpdatedParsed
    ELSE IF doc.UpdatedParsed # 0 THEN doc.UpdatedParsed
    ELSE 0

\* the body of one entry: the item's content, else its description
EntryContent(item) ==
    IF item.Content # <<>> THEN item.Content ELSE item.Description

\* cache.Entry: the fields the pipeline looks at
Entry(id, title, content, date, channelURL) ==
    [ID |-> id, Title |-> title, Content |-> content, Date |-> date,
     ChannelURL |-> channelURL]

\* make([]cache.Entry, 0, len(feed.Items)) and one append per item
convertEntries(doc, feedURL) ==
    Slice([i \in 1..Len(doc.Items) |->
              Entry(doc.Items[i].GUID, doc.Items[i].Title,
                    EntryContent(doc.Items[i]), EntryDate(doc.Items[i], doc),
                    feedURL)])

\* a request whose two headers are both set when the metadata has an ETag
RequestByETagOnly(m) ==
    [IfNoneMatch |-> IF m.present THEN m.meta.ETag ELSE "",
     IfModifiedSince |-> IF m.present /\ m.meta.ETag # ""
                         THEN m.meta.LastModified ELSE ""]

\* the conditional headers of the request built from the loaded metadata
Request(m) ==
    [IfNoneMatch |-> IF m.present THEN m.meta.ETag ELSE "",
     IfModifiedSince |-> IF m.present THEN m.meta.LastModified ELSE ""]

NoRequest == [IfNoneMatch |-> "", IfModifiedSince |-> ""]
NoMetadata == [present |-> FALSE, meta |-> ZeroMetadata, err |-> FALSE]

(***************************************************************************)
(* State.                                                                  *)
(***************************************************************************)
VARIABLES
    feeds,          \* cfg.Feeds: the URLs of the configured sources, in order
    cache,          \* the cache directory: record file of every path
    faulty,         \* whether cache I/O can fail in this behaviour
    faults,         \* cache I/O failures injected so far
    run,            \* number of runs started (the clock of LastFetched)
    runLimit,       \* number of runs made in this behaviour
    mode,           \* strategy of the current run
    workers,        \* f.workers of the current ParallelFetcher
    mainPc,         \* where the caller of FetchFeeds is
    thread,         \* locals of fetchOne: 0 is the caller, 1.. the workers
    feedsChan,      \* buffer of feedsChan (positions in feeds)
    feedsClosed,    \* close(feedsChan) has happened
    nextFeed,       \* the feeder goroutine's position in feeds
    wg,             \* counter of the WaitGroup
    resultsChan,    \* buffer of resultsChan
    resultsClosed,  \* close(resultsChan) has happened
    results,        \* the slice FetchFeeds builds and returns
    log,            \* per source, this run: what was done for it
    prevLog,        \* log of the previous run
    requestCount,   \* per source: requests received over all runs
    call,           \* the last call made on the cache directly
    ctx,            \* the context.Context handed to FetchFeeds
    cfg,            \* the filter settings of the configuration
    allEntries,     \* the entries handed to ApplyPerFeed
    filtered,       \* what ApplyPerFeed returned
    pure,           \* a pure function called on its own: input and output
    tally,          \* what fetchFeeds returned: the three counts and err
    poster          \* the tracking file and the tweets sent by the Poster

vars == <<feeds, cache, faulty, faults, run, runLimit, mode, workers, mainPc, thread,
          feedsChan, feedsClosed, nextFeed, wg, resultsChan, resultsClosed,
          results, log, prevLog, requestCount, call, ctx, cfg, allEntries, filtered,
          pure, tally, poster>>

rendering == <<cfg, allEntries, filtered, pure, tally, poster>>

Threads == 0..MaxWorkers
Workers == 1..MaxWorkers
Sources == 1..(MaxFeeds + 1)

\* the configured parallel_workers: read without validation, so 0 and the
\* negative numbers are values; every negative count behaves like -1
WorkerCounts == -1..MaxWorkers

\* pairwise distinct URLs of which the first three share one record file
SharedRecord == <<URL_A, URL_A2, URL_A3, URL_B>>

\* configurations: sources with distinct record files, sources sharing a
\* record file, a URL net/url rejects
Configurations ==
    { <<URL_A, URL_B, URL_A2, URL_BAD>>,
      SharedRecord,
      <<URL_BAD, URL_A, URL_B, URL_A2>> }

Shorter(a, b) == IF a < b THEN a ELSE b

\* the lists of sources handed to FetchFeeds: the first n sources of a
\* configuration
FeedLists ==
    { SubSeq(c, 1, n) : c \in Configurations, n \in 0..Shorter(MaxFeeds, 4) }

numFeeds == Len(feeds)

Local(pc, feed, meta, req, resp, result, cached) ==
    [pc |-> pc, feed |-> feed, meta |-> meta, req |-> req, resp |-> resp,
     result |-> result, cached |-> cached]

\* a thread that is not inside fetchOne
Outside(pc) ==
    Local(pc, 0, NoMetadata, NoRequest, NoResponse, NoResult, ZeroCachedFeed)

NoLog == [taken |-> 0, requests |-> 0, parses |-> 0, outcome |-> "none",
          etag |-> "", ifNoneMatch |-> "", returned |-> 0, result |-> NoResult]

\* the I/O outcomes a cache call can have now
IO == IOOutcomes(faulty /\ faults < MaxFaults)

Failed(io) == IF io = "fail" THEN 1 ELSE 0

Call(op, url, entries, meta) ==
    [op |-> op, url |-> url, entries |-> entries, meta |-> meta]
NoCall == Call("none", <<>>, NilSlice, ZeroMetadata)

\* fetchFeeds has not returned
NotReturned ==
    [done |-> FALSE, successCount |-> 0, cachedCount |-> 0, errorCount |-> 0,
     err |-> FALSE]

\* no tracking file yet and PostNewArticles never called: file is the IDs in
\* the tracking file, tweets the IDs of the tweets created so far, tracked
\* and sent what the last call found in the file and what it tweeted,
\* leftOut the IDs of the articles that the last call with empty tracking
\* data was given and did not select for posting
NotPosted ==
    [file |-> <<>>, tweets |-> <<>>, calls |-> 0, tracked |-> <<>>,
     sent |-> <<>>, err |-> FALSE, leftOut |-> {}]

InitFetch(lists, runs, ioFails) ==
    /\ feeds \in lists
    /\ tally = NotReturned
    /\ poster = NotPosted
    /\ runLimit = runs
    /\ faulty = ioFails
    /\ cache = [p \in Paths |-> AbsentFile]
    /\ faults = 0
    /\ run = 0
    /\ mode = "none"
    /\ workers = 0
    /\ mainPc = "idle"
    /\ thread = [t \in Threads |-> Outside("off")]
    /\ feedsChan = <<>>
    /\ feedsClosed = FALSE
    /\ nextFeed = 1
    /\ wg = 0
    /\ resultsChan = <<>>
    /\ resultsClosed = FALSE
    /\ results = <<>>
    /\ log = [i \in Sources |-> NoLog]
    /\ prevLog = [i \in Sources |-> NoLog]
    /\ requestCount = [i \in Sources |-> 0]
    /\ call = NoCall

\* a pattern is a sequence of characters; the empty pattern means "none"
NoPattern == <<>>

\* FeedConfig.Extra without the keys "filter" and "exclude"
NoExtra == [hasFilter |-> FALSE, filter |-> NoPattern,
            hasExclude |-> FALSE, exclude |-> NoPattern]

\* a configuration without any pattern
NoPatterns(n) ==
    [Filter |-> NoPattern, Exclude |-> NoPattern, Extra |-> [i \in 1..n |-> NoExtra]]

NotLoaded ==
    [done |-> FALSE, entries |-> NilSlice, err |-> FALSE, unreadable |-> {}]
NotFiltered == [by |-> "none", entries |-> NilSlice, err |-> FALSE]
NotCalled == [op |-> "none", input |-> <<>>, output |-> <<>>]

\* fetching only: context.Background() and no patterns
InitWith(lists, runs, ioFails) ==
    /\ InitFetch(lists, runs, ioFails)
    /\ ctx = "background"
    /\ cfg = NoPatterns(Len(feeds))
    /\ allEntries = NotLoaded
    /\ filtered = NotFiltered
    /\ pure = NotCalled

\* MaxRuns runs over any list of sources, cache I/O succeeding
Init == InitWith(FeedLists, MaxRuns, FALSE)

\* one run over any list of sources, cache I/O failing at most MaxFaults
\* times
InitIO == InitWith(FeedLists, 1, TRUE)

\* one run over the first MaxFeeds + 1 sources of each configuration
InitShared ==
    InitWith({SubSeq(c, 1, Shorter(MaxFeeds + 1, 4)) : c \in Configurations}, 1, FALSE)

(***************************************************************************)
(* Starting a run: NewSequential / NewParallel and the head of FetchFeeds. *)
(***************************************************************************)
CanStart == mainPc \in {"idle", "returned"} /\ run < runLimit

\* what is remembered of a source's fetch in the previous run: whether it
\* succeeded, and then what it returned and which tag it stored
Remembered(l) ==
    IF l.outcome = "ok" /\ l.returned > 0
    THEN [l EXCEPT !.taken = 1, !.requests = 1, !.parses = 1, !.returned = 1]
    ELSE NoLog

NewRun ==
    /\ run' = run + 1
    /\ results' = <<>>
    /\ prevLog' = [i \in Sources |-> Remembered(log[i])]
    /\ log' = [i \in Sources |-> NoLog]
    /\ UNCHANGED <<ctx, rendering, call, feeds, cache, faulty, faults, runLimit, requestCount>>

\* SequentialFetcher.FetchFeeds: results := make(...), then the loop
StartSequential ==
    /\ CanStart
    /\ NewRun
    /\ mode' = "sequential"
    /\ workers' = 0
    /\ mainPc' = "loop"
    /\ thread' = [t \in Threads |-> Outside(IF t = 0 THEN "idle" ELSE "off")]
    /\ feedsChan' = <<>>
    /\ feedsClosed' = FALSE
    /\ nextFeed' = 1
    /\ wg' = 0
    /\ resultsChan' = <<>>
    /\ resultsClosed' = FALSE

\* actualWorkers := f.workers, capped by numFeeds
actualWorkers(configured, n) == IF configured > n THEN n ELSE configured

\* ParallelFetcher.FetchFeeds up to the collecting loop: the channels, the
\* workers (wg.Add(1) before each go), the feeder and the closer
StartParallel(configured) ==
    /\ CanStart
    /\ NewRun
    /\ mode' = "parallel"
    /\ workers' = configured
    /\ feedsChan' = <<>>
    /\ feedsClosed' = FALSE
    /\ nextFeed' = 1
    /\ resultsChan' = <<>>
    /\ resultsClosed' = FALSE
    /\ IF numFeeds = 0
       THEN /\ mainPc' = "returned"
            /\ wg' = 0
            /\ thread' = [t \in Threads |-> Outside("off")]
       ELSE /\ mainPc' = "collect"
            /\ wg' = IF actualWorkers(configured, numFeeds) > 0
                     THEN actualWorkers(configured, numFeeds) ELSE 0
            /\ thread' = [t \in Threads |->
                            Outside(IF t \in 1..actualWorkers(configured, numFeeds)
                                    THEN "recv" ELSE "off")]

(***************************************************************************)
(* fetchOne, the per-source procedure (the two copies in the source are    *)
(* the same statement for statement).                                      *)
(***************************************************************************)
\* entering fetchOne for the source at position i
Enter(t, i) ==
    /\ thread' = [thread EXCEPT ![t] =
                    Local("loadMetadata", i, NoMetadata, NoRequest, NoResponse,
                          FetchResult(feeds[i], NilSlice, FALSE, ""), ZeroCachedFeed)]
    /\ log' = [log EXCEPT ![i].taken = @ + 1]

\* what became of the request
Outcome(resp) ==
    IF resp.err THEN "transport"
    ELSE IF resp.StatusCode = StatusNotModified THEN "notModified"
    ELSE IF resp.StatusCode # StatusOK THEN "status"
    ELSE IF ~resp.bodyRead THEN "body"
    ELSE IF ~resp.parsed THEN "parse"
    ELSE "ok"

\* a fetchOne that returns on an unexpected status without looking into the
\* cache
AfterDoStatusReturns(me, url, resp) ==
    LET o == Outcome(resp)
    IN  IF o = "transport"
        THEN [me EXCEPT !.pc = "fallback", !.resp = resp, !.result.Error = "fetch feed"]
        ELSE IF o = "notModified"
        THEN [me EXCEPT !.pc = "notModified", !.resp = resp]
        ELSE IF o = "status"
        THEN [me EXCEPT !.pc = "return", !.resp = resp,
                        !.result.Error = "unexpected status"]
        ELSE IF o = "body"
        THEN [me EXCEPT !.pc = "return", !.resp = resp,
                        !.result.Error = "read response body"]
        ELSE IF o = "parse"
        THEN [me EXCEPT !.pc = "return", !.resp = resp, !.result.Error = "parse feed"]
        ELSE [me EXCEPT !.pc = "saveEntries", !.resp = resp,
                        !.result.Entries = convertEntries(resp.doc, url)]

\* a fetchOne that treats a parse failure like a failed request and falls
\* back to the cache
AfterDoParseFallsBack(me, url, resp) ==
    LET o == Outcome(resp)
    IN  IF o \in {"transport", "parse"}
        THEN [me EXCEPT !.pc = "fallback", !.resp = resp, !.result.Error = "fetch feed"]
        ELSE IF o = "notModified"
        THEN [me EXCEPT !.pc = "notModified", !.resp = resp]
        ELSE IF o = "status"
        THEN [me EXCEPT !.pc = "fallback", !.resp = resp,
                        !.result.Error = "unexpected status"]
        ELSE IF o = "body"
        THEN [me EXCEPT !.pc = "return", !.resp = resp,
                        !.result.Error = "read response body"]
        ELSE [me EXCEPT !.pc = "saveEntries", !.resp = resp,
                        !.result.Entries = convertEntries(resp.doc, url)]

\* a fetchOne that goes on to the two writes after a 304 as after a 200
AfterDoWritesOnNotModified(me, url, resp) ==
    LET o == Outcome(resp)
    IN  IF o = "transport"
        THEN [me EXCEPT !.pc = "fallback", !.resp = resp, !.result.Error = "fetch feed"]
        ELSE IF o = "status"
        THEN [me EXCEPT !.pc = "fallback", !.resp = resp,
                        !.result.Error = "unexpected status"]
        ELSE IF o = "body"
        THEN [me EXCEPT !.pc = "return", !.resp = resp,
                        !.result.Error = "read response body"]
        ELSE IF o = "parse"
        THEN [me EXCEPT !.pc = "return", !.resp = resp, !.result.Error = "parse feed"]
        ELSE [me EXCEPT !.pc = "saveEntries", !.resp = resp,
                        !.result.Entries = convertEntries(resp.doc, url)]

\* where fetchOne goes after client.Do, io.ReadAll and parser.Parse
AfterDo(me, url, resp) ==
    LET o == Outcome(resp)
    IN  IF o = "transport"
        THEN [me EXCEPT !.pc = "fallback", !.resp = resp, !.result.Error = "fetch feed"]
        ELSE IF o = "notModified"
        THEN [me EXCEPT !.pc = "notModified", !.resp = resp]
        ELSE IF o = "status"
        THEN [me EXCEPT !.pc = "fallback", !.resp = resp,
                        !.result.Error = "unexpected status"]
        ELSE IF o = "body"
        THEN [me EXCEPT !.pc = "return", !.resp = resp,
                        !.result.Error = "read response body"]
        ELSE IF o = "parse"
        THEN [me EXCEPT !.pc = "return", !.resp = resp, !.result.Error = "parse feed"]
        ELSE [me EXCEPT !.pc = "saveEntries", !.resp = resp,
                        !.result.Entries = convertEntries(resp.doc, url)]

\* the log entry of a source after its request was answered
Requested(l, req, resp) ==
    [l EXCEPT !.requests = @ + 1,
              !.ifNoneMatch = req.IfNoneMatch,
              !.parses = @ + (IF Outcome(resp) \in {"parse", "ok"} THEN 1 ELSE 0),
              !.outcome = Outcome(resp),
              !.etag = resp.doc.ETag]

\* what client.Do can return: with a cancelled context it fails before
\* anything is sent
Answers ==
    IF ctx = "cancelled"
    THEN {Response(TRUE, 0, FALSE, FALSE, NoDocument)}
    ELSE Responses

\* fetchOne from LoadMetadata to the parsed response: the metadata is read
\* from the cache, the request is built with its conditional headers, sent
\* with f.client.Do(req), and on a 200 the body is read and parsed.  Only
\* LoadMetadata touches state shared with other threads.
FetchRequest(t) ==
    /\ thread[t].pc = "loadMetadata"
    /\ ParsesAsURL(feeds[thread[t].feed])
    /\ \E io \in IO, resp \in Answers :
        LET me == thread[t]
            i == me.feed
            m == LoadMetadata(cache, feeds[i], io)
        IN  /\ faults' = faults + Failed(io)
            /\ thread' = [thread EXCEPT
                            ![t] = AfterDo([me EXCEPT !.meta = m, !.req = Request(m)],
                                           feeds[i], resp)]
            /\ log' = [log EXCEPT ![i] = IF ctx = "cancelled"
                                         THEN [@ EXCEPT !.outcome = "transport"]
                                         ELSE Requested(@, Request(m), resp)]
            /\ requestCount' = [requestCount EXCEPT
                                  ![i] = IF ctx = "cancelled" THEN @ ELSE @ + 1]
    /\ UNCHANGED <<ctx, rendering, call, feeds, cache, faulty, run, runLimit, mode, workers, mainPc, feedsChan,
                   feedsClosed, nextFeed, wg, resultsChan, resultsClosed,
                   results, prevLog>>

\* fetchOne for a URL that http.NewRequestWithContext rejects: the metadata
\* is read, no request is sent
FetchCreateRequestFails(t) ==
    /\ thread[t].pc = "loadMetadata"
    /\ ~ParsesAsURL(feeds[thread[t].feed])
    /\ \E io \in IO :
        LET me == thread[t]
            m == LoadMetadata(cache, feeds[me.feed], io)
        IN  /\ faults' = faults + Failed(io)
            /\ thread' = [thread EXCEPT ![t].pc = "return",
                                        ![t].meta = m,
                                        ![t].result.Error = "create request"]
            /\ log' = [log EXCEPT ![me.feed].outcome = "create"]
    /\ UNCHANGED <<ctx, rendering, call, feeds, cache, faulty, run, runLimit, mode, workers, mainPc, feedsChan,
                   feedsClosed, nextFeed, wg, resultsChan, resultsClosed,
                   results, prevLog, requestCount>>

\* the result after the cache fallback of a failed request
WithFallback(result, loaded) ==
    IF ~loaded.entries.isNil
    THEN [result EXCEPT !.Entries = loaded.entries, !.Cached = TRUE]
    ELSE result

\* a fallback that writes the entries it loaded back to the record
FetchFallbackResaves(t) ==
    /\ thread[t].pc = "fallback"
    /\ \E io \in IO :
        LET me == thread[t]
            loaded == LoadEntries(cache, feeds[me.feed], io)
        IN  /\ faults' = faults + Failed(io)
            /\ cache' = IF loaded.entries.isNil THEN cache
                        ELSE SaveEntries(cache, feeds[me.feed], loaded.entries,
                                         run, io).cache
            /\ thread' = [thread EXCEPT ![t].pc = "return",
                                        ![t].result = WithFallback(me.result, loaded)]
    /\ UNCHANGED <<ctx, rendering, call, feeds, faulty, run, runLimit, mode, workers, mainPc, feedsChan,
                   feedsClosed, nextFeed, wg, resultsChan, resultsClosed,
                   results, log, prevLog, requestCount>>

\* transport failure or unexpected status: try to load from cache
FetchFallback(t) ==
    /\ thread[t].pc = "fallback"
    /\ \E io \in IO :
        LET me == thread[t]
            loaded == LoadEntries(cache, feeds[me.feed], io)
        IN  /\ faults' = faults + Failed(io)
            /\ thread' = [thread EXCEPT ![t].pc = "return",
                                        ![t].result = WithFallback(me.result, loaded)]
    /\ UNCHANGED <<ctx, rendering, call, feeds, cache, faulty, run, runLimit, mode, workers, mainPc, feedsChan,
                   feedsClosed, nextFeed, wg, resultsChan, resultsClosed,
                   results, log, prevLog, requestCount>>

\* the result of a 304
WithNotModified(result, loaded) ==
    IF loaded.err
    THEN [result EXCEPT !.Error = "load cached entries"]
    ELSE [result EXCEPT !.Entries = loaded.entries, !.Cached = TRUE]

\* 304 Not Modified: the entries come from the cache
FetchNotModified(t) ==
    /\ thread[t].pc = "notModified"
    /\ \E io \in IO :
        LET me == thread[t]
            loaded == LoadEntries(cache, feeds[me.feed], io)
        IN  /\ faults' = faults + Failed(io)
            /\ thread' = [thread EXCEPT ![t].pc = "return",
                                        ![t].result = WithNotModified(me.result, loaded)]
    /\ UNCHANGED <<ctx, rendering, call, feeds, cache, faulty, run, runLimit, mode, workers, mainPc, feedsChan,
                   feedsClosed, nextFeed, wg, resultsChan, resultsClosed,
                   results, log, prevLog, requestCount>>

\* f.cache.SaveEntries(feed.URL, entries); a failure is only logged
FetchSaveEntries(t) ==
    /\ thread[t].pc = "saveEntries"
    /\ \E io \in IO :
        LET me == thread[t]
            saved == SaveEntries(cache, feeds[me.feed], me.result.Entries, run, io)
        IN  /\ faults' = faults + Failed(io)
            /\ cache' = saved.cache
            /\ thread' = [thread EXCEPT ![t].pc = "saveMetadataLoad"]
    /\ UNCHANGED <<ctx, rendering, call, feeds, faulty, run, runLimit, mode, workers, mainPc, feedsChan,
                   feedsClosed, nextFeed, wg, resultsChan, resultsClosed,
                   results, log, prevLog, requestCount>>

\* SaveMetadata reads the record back
FetchSaveMetadataLoad(t) ==
    /\ thread[t].pc = "saveMetadataLoad"
    /\ \E io \in IO :
        LET me == thread[t]
        IN  /\ faults' = faults + Failed(io)
            /\ thread' = [thread EXCEPT
                            ![t].pc = "saveMetadataStore",
                            ![t].cached = SaveMetadataLoad(cache, feeds[me.feed], io)]
    /\ UNCHANGED <<ctx, rendering, call, feeds, cache, faulty, run, runLimit, mode, workers, mainPc, feedsChan,
                   feedsClosed, nextFeed, wg, resultsChan, resultsClosed,
                   results, log, prevLog, requestCount>>

\* newMeta of a successful fetch
NewMetadata(now, resp) == Metadata(now, resp.doc.ETag, resp.doc.LastModified)

\* SaveMetadata writes the record with the new metadata; a failure is only
\* logged
FetchSaveMetadataStore(t) ==
    /\ thread[t].pc = "saveMetadataStore"
    /\ \E io \in IO :
        LET me == thread[t]
            saved == SaveMetadataStore(cache, feeds[me.feed], me.cached,
                                       NewMetadata(run, me.resp), io)
        IN  /\ faults' = faults + Failed(io)
            /\ cache' = saved.cache
            /\ thread' = [thread EXCEPT ![t].pc = "return",
                                        ![t].cached = ZeroCachedFeed]
    /\ UNCHANGED <<ctx, rendering, call, feeds, faulty, run, runLimit, mode, workers, mainPc, feedsChan,
                   feedsClosed, nextFeed, wg, resultsChan, resultsClosed,
                   results, log, prevLog, requestCount>>

\* the log entry of a source whose fetchOne has returned
Returned(l, result) == [l EXCEPT !.returned = @ + 1, !.result = result]

(***************************************************************************)
(* SequentialFetcher.FetchFeeds: the loop.                                 *)
(***************************************************************************)
SeqFetch ==
    /\ mainPc = "loop"
    /\ thread[0].pc = "idle"
    /\ Len(results) < numFeeds
    /\ Enter(0, Len(results) + 1)
    /\ UNCHANGED <<ctx, rendering, call, feeds, cache, faulty, faults, run, runLimit, mode, workers, mainPc,
                   feedsChan, feedsClosed, nextFeed, wg, resultsChan,
                   resultsClosed, results, prevLog, requestCount>>

\* a loop that puts each result in front of the earlier ones
SeqAppendInFront ==
    /\ mainPc = "loop"
    /\ thread[0].pc = "return"
    /\ results' = <<thread[0].result>> \o results
    /\ log' = [log EXCEPT ![thread[0].feed] = Returned(@, thread[0].result)]
    /\ thread' = [thread EXCEPT ![0] = Outside("idle")]
    /\ UNCHANGED <<ctx, rendering, call, feeds, cache, faulty, faults, run, runLimit, mode, workers, mainPc,
                   feedsChan, feedsClosed, nextFeed, wg, resultsChan,
                   resultsClosed, prevLog, requestCount>>

\* results = append(results, result)
SeqAppend ==
    /\ mainPc = "loop"
    /\ thread[0].pc = "return"
    /\ results' = Append(results, thread[0].result)
    /\ log' = [log EXCEPT ![thread[0].feed] = Returned(@, thread[0].result)]
    /\ thread' = [thread EXCEPT ![0] = Outside("idle")]
    /\ UNCHANGED <<ctx, rendering, call, feeds, cache, faulty, faults, run, runLimit, mode, workers, mainPc,
                   feedsChan, feedsClosed, nextFeed, wg, resultsChan,
                   resultsClosed, prevLog, requestCount>>

SeqReturn ==
    /\ mainPc = "loop"
    /\ thread[0].pc = "idle"
    /\ Len(results) = numFeeds
    /\ mainPc' = "returned"
    /\ thread' = [thread EXCEPT ![0] = Outside("off")]
    /\ UNCHANGED <<ctx, rendering, call, feeds, cache, faulty, faults, run, runLimit, mode, workers, feedsChan,
                   feedsClosed, nextFeed, wg, resultsChan, resultsClosed,
                   results, log, prevLog, requestCount>>

(***************************************************************************)
(* ParallelFetcher.FetchFeeds: feeder, workers, closer, collector.         *)
(***************************************************************************)
\* feedsChan <- feed (the buffer holds numFeeds)
FeederSend ==
    /\ mode = "parallel"
    /\ nextFeed <= numFeeds
    /\ ~feedsClosed
    /\ Len(feedsChan) < numFeeds
    /\ feedsChan' = Append(feedsChan, nextFeed)
    /\ nextFeed' = nextFeed + 1
    /\ UNCHANGED <<ctx, rendering, call, feeds, cache, faulty, faults, run, runLimit, mode, workers, mainPc,
                   thread, feedsClosed, wg, resultsChan, resultsClosed, results,
                   log, prevLog, requestCount>>

\* a feeder that returns after the last send without closing feedsChan
FeederReturnsWithoutClose ==
    /\ mode = "parallel"
    /\ numFeeds > 0
    /\ nextFeed = numFeeds + 1
    /\ ~feedsClosed
    /\ nextFeed' = nextFeed + 1
    /\ UNCHANGED <<ctx, rendering, call, feeds, cache, faulty, faults, run, runLimit, mode, workers, mainPc,
                   thread, feedsChan, feedsClosed, wg, resultsChan, resultsClosed,
                   results, log, prevLog, requestCount>>

\* close(feedsChan)
FeederClose ==
    /\ mode = "parallel"
    /\ numFeeds > 0
    /\ nextFeed = numFeeds + 1
    /\ ~feedsClosed
    /\ feedsClosed' = TRUE
    /\ UNCHANGED <<ctx, rendering, call, feeds, cache, faulty, faults, run, runLimit, mode, workers, mainPc,
                   thread, feedsChan, nextFeed, wg, resultsChan, resultsClosed,
                   results, log, prevLog, requestCount>>

\* for feed := range feedsChan: one more feed
WorkerReceive(w) ==
    /\ thread[w].pc = "recv"
    /\ feedsChan # <<>>
    /\ feedsChan' = Tail(feedsChan)
    /\ Enter(w, Head(feedsChan))
    /\ UNCHANGED <<ctx, rendering, call, feeds, cache, faulty, faults, run, runLimit, mode, workers, mainPc,
                   feedsClosed, nextFeed, wg, resultsChan, resultsClosed,
                   results, prevLog, requestCount>>

\* resultsChan <- result (the buffer holds numFeeds)
WorkerSend(w) ==
    /\ mode = "parallel"
    /\ thread[w].pc = "return"
    /\ Len(resultsChan) < numFeeds
    /\ resultsChan' = Append(resultsChan, thread[w].result)
    /\ log' = [log EXCEPT ![thread[w].feed] = Returned(@, thread[w].result)]
    /\ thread' = [thread EXCEPT ![w] = Outside("recv")]
    /\ UNCHANGED <<ctx, rendering, call, feeds, cache, faulty, faults, run, runLimit, mode, workers, mainPc,
                   feedsChan, feedsClosed, nextFeed, wg, resultsClosed, results,
                   prevLog, requestCount>>

\* the range loop ends on the closed, drained channel; defer wg.Done()
WorkerExit(w) ==
    /\ thread[w].pc = "recv"
    /\ feedsChan = <<>>
    /\ feedsClosed
    /\ thread' = [thread EXCEPT ![w] = Outside("off")]
    /\ wg' = wg - 1
    /\ UNCHANGED <<ctx, rendering, call, feeds, cache, faulty, faults, run, runLimit, mode, workers, mainPc,
                   feedsChan, feedsClosed, nextFeed, resultsChan, resultsClosed,
                   results, log, prevLog, requestCount>>

\* a closer that does not wait for the workers
CloseResultsWithoutWait ==
    /\ mode = "parallel"
    /\ mainPc = "collect"
    /\ ~resultsClosed
    /\ resultsClosed' = TRUE
    /\ UNCHANGED <<ctx, rendering, call, feeds, cache, faulty, faults, run, runLimit, mode, workers, mainPc,
                   thread, feedsChan, feedsClosed, nextFeed, wg, resultsChan,
                   results, log, prevLog, requestCount>>

\* wg.Wait(); close(resultsChan)
CloseResults ==
    /\ mode = "parallel"
    /\ mainPc = "collect"
    /\ wg = 0
    /\ ~resultsClosed
    /\ resultsClosed' = TRUE
    /\ UNCHANGED <<ctx, rendering, call, feeds, cache, faulty, faults, run, runLimit, mode, workers, mainPc,
                   thread, feedsChan, feedsClosed, nextFeed, wg, resultsChan,
                   results, log, prevLog, requestCount>>

\* for result := range resultsChan: one more result
Collect ==
    /\ mainPc = "collect"
    /\ resultsChan # <<>>
    /\ results' = Append(results, Head(resultsChan))
    /\ resultsChan' = Tail(resultsChan)
    /\ UNCHANGED <<ctx, rendering, call, feeds, cache, faulty, faults, run, runLimit, mode, workers, mainPc,
                   thread, feedsChan, feedsClosed, nextFeed, wg, resultsClosed,
                   log, prevLog, requestCount>>

\* a collecting loop that ends on the first empty channel, closed or not
ParReturnBeforeClose ==
    /\ mainPc = "collect"
    /\ resultsChan = <<>>
    /\ mainPc' = "returned"
    /\ UNCHANGED <<ctx, rendering, call, feeds, cache, faulty, faults, run, runLimit, mode, workers, thread,
                   feedsChan, feedsClosed, nextFeed, wg, resultsChan,
                   resultsClosed, results, log, prevLog, requestCount>>

\* the range loop ends on the closed, drained channel; return results
ParReturn ==
    /\ mainPc = "collect"
    /\ resultsChan = <<>>
    /\ resultsClosed
    /\ mainPc' = "returned"
    /\ UNCHANGED <<ctx, rendering, call, feeds, cache, faulty, faults, run, runLimit, mode, workers, thread,
                   feedsChan, feedsClosed, nextFeed, wg, resultsChan,
                   resultsClosed, results, log, prevLog, requestCount>>

(***************************************************************************)
(* The specifications.                                                     *)
(***************************************************************************)
Next ==
    \/ StartSequential
    \/ \E configured \in WorkerCounts : StartParallel(configured)
    \/ \E t \in Threads : FetchRequest(t)
    \/ \E t \in Threads : FetchCreateRequestFails(t)
    \/ \E t \in Threads : FetchFallback(t)
    \/ \E t \in Threads : FetchNotModified(t)
    \/ \E t \in Threads : FetchSaveEntries(t)
    \/ \E t \in Threads : FetchSaveMetadataLoad(t)
    \/ \E t \in Threads : FetchSaveMetadataStore(t)
    \/ SeqFetch
    \/ SeqAppend
    \/ SeqReturn
    \/ FeederSend
    \/ FeederClose
    \/ \E w \in Workers : WorkerReceive(w)
    \/ \E w \in Workers : WorkerSend(w)
    \/ \E w \in Workers : WorkerExit(w)
    \/ CloseResults
    \/ Collect
    \/ ParReturn

\* runs over a cache directory whose file system calls succeed
Spec == Init /\ [][Next]_vars

\* a run in which cache reads and writes can fail
SpecIO == InitIO /\ [][Next]_vars

\* one run over MaxFeeds + 1 sources, among them three that share one
\* record file
SpecShared == InitShared /\ [][Next]_vars

(***************************************************************************)
(* Package filter.  A pattern is a sequence of characters.  Of the regular *)
(* expression syntax the model has the literal characters, which match     *)
(* themselves, and "(", which opens a group: a pattern with a "(" and no    *)
(* ")" does not compile.  A pattern of literals matches a text when it     *)
(* occurs in it.                                                           *)
(***************************************************************************)
\* regexp.Compile succeeds
Compiles(pattern) == \A i \in 1..Len(pattern) : pattern[i] # "("

\* (*regexp.Regexp).MatchString for a compiled pattern of literals
MatchString(pattern, text) ==
    \E i \in 1..(Len(text) + 1) :
        /\ i + Len(pattern) - 1 <= Len(text)
        /\ SubSeq(text, i, i + Len(pattern) - 1) = pattern

\* a field of Filter: nil or a compiled pattern
NilRegexp == [isNil |-> TRUE, pattern |-> NoPattern]
Regexp(pattern) == [isNil |-> FALSE, pattern |-> pattern]

\* filter.New
New(includePattern, excludePattern) ==
    IF includePattern # NoPattern /\ ~Compiles(includePattern)
    THEN [err |-> TRUE, include |-> NilRegexp, exclude |-> NilRegexp]
    ELSE IF excludePattern # NoPattern /\ ~Compiles(excludePattern)
    THEN [err |-> TRUE, include |-> NilRegexp, exclude |-> NilRegexp]
    ELSE [err |-> FALSE,
          include |-> IF includePattern # NoPattern
                      THEN Regexp(includePattern) ELSE NilRegexp,
          exclude |-> IF excludePattern # NoPattern
                      THEN Regexp(excludePattern) ELSE NilRegexp]

\* a text without the separating space
EntryTextWithoutSpace(entry) == entry.Title \o entry.Content

\* text := entry.Title + " " + entry.Content
EntryText(entry) == entry.Title \o <<" ">> \o entry.Content

\* a keep rule that forgets the exclude pattern
KeepsIgnoringExclude(f, entry) ==
    f.include.isNil \/ MatchString(f.include.pattern, EntryText(entry))

\* the body of the loop of Filter.Apply: the entry is appended
Keeps(f, entry) ==
    /\ f.include.isNil \/ MatchString(f.include.pattern, EntryText(entry))
    /\ f.exclude.isNil \/ ~MatchString(f.exclude.pattern, EntryText(entry))

\* the elements of s that satisfy Keep, in the order of s
RECURSIVE SelectKept(_, _)
SelectKept(f, s) ==
    IF s = <<>> THEN <<>>
    ELSE IF Keeps(f, Head(s))
    THEN <<Head(s)>> \o SelectKept(f, Tail(s))
    ELSE SelectKept(f, Tail(s))

\* Filter.Apply: the slice itself without patterns, else a new slice
Apply(f, entries) ==
    IF f.include.isNil /\ f.exclude.isNil
    THEN entries
    ELSE Slice(SelectKept(f, entries.elems))

\* FeedConfig.Filter() and FeedConfig.Exclude(): the value of the key of
\* Extra, "" without the key
FeedFilter(extra) == IF extra.hasFilter THEN extra.filter ELSE NoPattern
FeedExclude(extra) == IF extra.hasExclude THEN extra.exclude ELSE NoPattern

\* a resolution in which the global pattern wins over the source's own
IncludePatternGlobalFirst(extra, globalInclude) ==
    IF globalInclude # NoPattern THEN globalInclude ELSE FeedFilter(extra)

\* ApplyPerFeed, pattern resolution for one source
IncludePattern(extra, globalInclude) ==
    IF FeedFilter(extra) # NoPattern THEN FeedFilter(extra) ELSE globalInclude
ExcludePattern(extra, globalExclude) ==
    IF FeedExclude(extra) # NoPattern THEN FeedExclude(extra) ELSE globalExclude

NoFilter == [has |-> FALSE, filter |-> New(NoPattern, NoPattern)]

\* ApplyPerFeed, first loop: feedFilters after the first k sources, or the
\* error of the first filter that cannot be built
RECURSIVE FeedFilters(_, _, _, _, _)
FeedFilters(k, urls, extras, globalInclude, globalExclude) ==
    IF k = 0 THEN [err |-> FALSE, map |-> [u \in URLs |-> NoFilter]]
    ELSE LET before == FeedFilters(k - 1, urls, extras, globalInclude, globalExclude)
             inc == IncludePattern(extras[k], globalInclude)
             exc == ExcludePattern(extras[k], globalExclude)
             made == New(inc, exc)
         IN  IF before.err THEN before
             ELSE IF inc = NoPattern /\ exc = NoPattern THEN before
             ELSE IF made.err THEN [err |-> TRUE, map |-> before.map]
             ELSE [err |-> FALSE,
                   map |-> [before.map EXCEPT ![urls[k]] =
                               [has |-> TRUE, filter |-> made]]]

\* a second loop that keeps only what a registered filter keeps
RECURSIVE SelectPerFeedRegistered(_, _)
SelectPerFeedRegistered(map, s) ==
    IF s = <<>> THEN <<>>
    ELSE LET entry == Head(s)
             kept == /\ map[entry.ChannelURL].has
                     /\ Len(Apply(map[entry.ChannelURL].filter,
                                  Slice(<<entry>>)).elems) > 0
         IN  IF kept THEN <<entry>> \o SelectPerFeedRegistered(map, Tail(s))
             ELSE SelectPerFeedRegistered(map, Tail(s))

\* ApplyPerFeed, second loop: the entries without a filter and those their
\* filter keeps
RECURSIVE SelectPerFeed(_, _)
SelectPerFeed(map, s) ==
    IF s = <<>> THEN <<>>
    ELSE LET entry == Head(s)
             kept == \/ ~map[entry.ChannelURL].has
                     \/ Len(Apply(map[entry.ChannelURL].filter,
                                  Slice(<<entry>>)).elems) > 0
         IN  IF kept THEN <<entry>> \o SelectPerFeed(map, Tail(s))
             ELSE SelectPerFeed(map, Tail(s))

\* filter.ApplyPerFeed
ApplyPerFeed(entries, urls, extras, globalInclude, globalExclude) ==
    LET built == FeedFilters(Len(urls), urls, extras, globalInclude, globalExclude)
    IN  IF built.err
        THEN [entries |-> NilSlice, err |-> TRUE]
        ELSE [entries |-> Slice(SelectPerFeed(built.map, entries.elems)),
              err |-> FALSE]

(***************************************************************************)
(* The filters used on their own, as filter_test.go does: an entry list,   *)
(* the sources with their overrides and the global patterns are chosen,    *)
(* then ApplyPerFeed, or New and Apply with the global patterns, is called. *)
(***************************************************************************)
\* no pattern, three patterns of literals, one that does not compile
Patterns == {NoPattern, <<"a">>, <<"b">>, <<"a", " ", "b">>, <<"(">>}

\* the values of Extra: each key missing or set, also to the empty string
Extras ==
    {[hasFilter |-> hf, filter |-> f, hasExclude |-> he, exclude |-> e] :
        hf \in BOOLEAN, he \in BOOLEAN, f \in Patterns, e \in Patterns}
    \ {x \in [hasFilter : BOOLEAN, filter : Patterns,
               hasExclude : BOOLEAN, exclude : Patterns] :
          \/ ~x.hasFilter /\ x.filter # NoPattern
          \/ ~x.hasExclude /\ x.exclude # NoPattern}

\* the overrides tried on a second source
SecondExtras ==
    {NoExtra,
     [NoExtra EXCEPT !.hasFilter = TRUE, !.filter = <<"b">>],
     [NoExtra EXCEPT !.hasExclude = TRUE, !.exclude = <<"(">>]}

FilteredFeedLists == {<<>>, <<URL_A>>, <<URL_A, URL_B>>}

ExtraLists(n) ==
    IF n = 0 THEN {<<>>}
    ELSE IF n = 1 THEN {<<x>> : x \in Extras}
    ELSE {<<x, y>> : x \in Extras, y \in SecondExtras}

\* entries of URL_A, of URL_B and of a URL that is never configured; the
\* text of the third is "a b" while neither its title nor its body holds
\* "a b"
Corpus ==
    <<Entry("1", <<"a">>, <<>>, 0, URL_A),
      Entry("2", <<"b">>, <<"a">>, 0, URL_A),
      Entry("3", <<"a">>, <<"b">>, 0, URL_A),
      Entry("4", <<"b">>, <<>>, 0, URL_B),
      Entry("5", <<"a">>, <<"a">>, 0, URL_B),
      Entry("6", <<"b">>, <<"b">>, 0, URL_A3)>>

Corpora == {NilSlice, Slice(<<>>), Slice(Corpus)}

InitFilter ==
    /\ InitFetch(FilteredFeedLists, 0, FALSE)
    /\ ctx = "background"
    /\ cfg \in {[Filter |-> gi, Exclude |-> ge, Extra |-> x] :
                   gi \in Patterns, ge \in Patterns, x \in ExtraLists(Len(feeds))}
    /\ allEntries \in {[done |-> TRUE, entries |-> c, err |-> FALSE,
                        unreadable |-> {}] : c \in Corpora}
    /\ filtered = NotFiltered
    /\ pure = NotCalled

OnlyFiltered ==
    UNCHANGED <<poster, tally, pure, ctx, cfg, allEntries, call, feeds, cache, faulty, faults, run,
                runLimit, mode, workers, mainPc, thread, feedsChan, feedsClosed,
                nextFeed, wg, resultsChan, resultsClosed, results, log, prevLog,
                requestCount>>

\* filter.ApplyPerFeed(entries, cfg.Feeds, cfg.Planet.Filter, cfg.Planet.Exclude)
FilterPerFeed ==
    /\ mainPc = "idle"
    /\ allEntries.done
    /\ filtered.by = "none"
    /\ LET out == ApplyPerFeed(allEntries.entries, feeds, cfg.Extra,
                               cfg.Filter, cfg.Exclude)
       IN  filtered' = [by |-> "ApplyPerFeed", entries |-> out.entries,
                        err |-> out.err]
    /\ OnlyFiltered

\* filter.New(cfg.Planet.Filter, cfg.Planet.Exclude) and filter.Apply(entries)
FilterGlobal ==
    /\ mainPc = "idle"
    /\ allEntries.done
    /\ filtered.by = "none"
    /\ LET f == New(cfg.Filter, cfg.Exclude)
       IN  filtered' = IF f.err
                       THEN [by |-> "New", entries |-> NilSlice, err |-> TRUE]
                       ELSE [by |-> "Apply",
                             entries |-> Apply(f, allEntries.entries),
                             err |-> FALSE]
    /\ OnlyFiltered

NextFilter == FilterPerFeed \/ FilterGlobal

SpecFilter == InitFilter /\ [][NextFilter]_vars

\* the caller cancels the context while FetchFeeds runs
Cancel ==
    /\ ctx = "live"
    /\ mainPc \in {"loop", "collect"}
    /\ ctx' = "cancelled"
    /\ UNCHANGED <<rendering, call, feeds, cache, faulty, faults, run, runLimit, mode,
                   workers, mainPc, thread, feedsChan, feedsClosed, nextFeed, wg,
                   resultsChan, resultsClosed, results, log, prevLog, requestCount>>

\* one run under a context that the caller can cancel
InitCancel ==
    /\ InitFetch(FeedLists, 1, FALSE)
    /\ ctx = "live"
    /\ cfg = NoPatterns(Len(feeds))
    /\ allEntries = NotLoaded
    /\ filtered = NotFiltered
    /\ pure = NotCalled

NextCancel == Next \/ Cancel

SpecCancel == InitCancel /\ [][NextCancel]_vars

(***************************************************************************)
(* runFetchAndRender: doFetch (fetchFeeds calls FetchFeeds), then doRender *)
(* (loadAndFilterEntries calls LoadAll and ApplyPerFeed).  The patterns of *)
(* the configuration are compiled nowhere but in ApplyPerFeed.             *)
(***************************************************************************)
\* the patterns of a configuration of n sources: none, a global filter, and
\* a pattern that does not compile, global or of the first source
PipelineConfigs(n) ==
    {NoPatterns(n),
     [NoPatterns(n) EXCEPT !.Filter = <<"a">>],
     [NoPatterns(n) EXCEPT !.Exclude = <<"(">>]}
    \cup (IF n = 0 THEN {}
          ELSE {[NoPatterns(n) EXCEPT
                    !.Extra[1] = [NoExtra EXCEPT !.hasFilter = TRUE,
                                                 !.filter = <<"(">>]]})

InitPipeline ==
    /\ InitFetch(FeedLists, 1, FALSE)
    /\ ctx = "background"
    /\ cfg \in PipelineConfigs(Len(feeds))
    /\ allEntries = NotLoaded
    /\ filtered = NotFiltered
    /\ pure = NotCalled

OnlyRendering ==
    UNCHANGED <<poster, pure, ctx, cfg, call, feeds, cache, faulty, faults, run, runLimit,
                mode, workers, mainPc, thread, feedsChan, feedsClosed,
                nextFeed, wg, resultsChan, resultsClosed, results, log,
                prevLog, requestCount>>

\* a tally in which every result served from the cache counts as cached
TallyEveryCached(rs) ==
    [done |-> TRUE,
     successCount |-> Cardinality({i \in 1..Len(rs) : rs[i].Error = ""}),
     cachedCount |-> Cardinality({i \in 1..Len(rs) : rs[i].Cached}),
     errorCount |-> Cardinality({i \in 1..Len(rs) : rs[i].Error # ""}),
     err |-> FALSE]

\* fetchFeeds, the loop over the results: the counts it returns with a nil
\* error
Tally(rs) ==
    [done |-> TRUE,
     successCount |-> Cardinality({i \in 1..Len(rs) : rs[i].Error = ""}),
     cachedCount |->
         Cardinality({i \in 1..Len(rs) : rs[i].Error = "" /\ rs[i].Cached}),
     errorCount |-> Cardinality({i \in 1..Len(rs) : rs[i].Error # ""}),
     err |-> FALSE]

\* fetchFeeds after FetchFeeds has returned, and doFetch
PipelineTally ==
    /\ mainPc = "returned"
    /\ ~tally.done
    /\ tally' = Tally(results)
    /\ UNCHANGED <<allEntries, filtered>>
    /\ OnlyRendering

\* loadAndFilterEntries, first half: cacheInstance.LoadAll()
PipelineLoadAll ==
    /\ tally.done
    /\ ~allEntries.done
    /\ LET out == LoadAll(cache, {})
       IN  allEntries' = [done |-> TRUE, entries |-> out.entries,
                          err |-> out.err, unreadable |-> {}]
    /\ UNCHANGED <<filtered, tally>>
    /\ OnlyRendering

\* loadAndFilterEntries, second half: nothing is filtered when no entry was
\* loaded, else filter.ApplyPerFeed
PipelineFilter ==
    /\ allEntries.done
    /\ filtered.by = "none"
    /\ LET out == ApplyPerFeed(allEntries.entries, feeds, cfg.Extra,
                               cfg.Filter, cfg.Exclude)
       IN  filtered' =
             IF Len(allEntries.entries.elems) = 0
             THEN [by |-> "nothing", entries |-> allEntries.entries,
                   err |-> FALSE]
             ELSE [by |-> "ApplyPerFeed", entries |-> out.entries,
                   err |-> out.err]
    /\ UNCHANGED <<allEntries, tally>>
    /\ OnlyRendering

NextPipeline == Next \/ PipelineTally \/ PipelineLoadAll \/ PipelineFilter

SpecPipeline == InitPipeline /\ [][NextPipeline]_vars

(***************************************************************************)
(* The cache used on its own, as cache_test.go does: any sequence of       *)
(* SaveEntries and SaveMetadata calls; the Load calls change nothing and   *)
(* are operators on the directory.                                         *)
(***************************************************************************)
Times == 1..MaxRuns

\* the URLs the cache is called with: two that share a record file and one
\* with a file of its own
SavedURLs == {URL_A, URL_A2, URL_B}

\* the entry lists saved: nil, empty, and the entries of a parsed feed
SavedEntries ==
    {NilSlice} \cup {convertEntries(d, URL_A) : d \in Documents}
    \cup {Slice(<<Entry(InvalidUTF8, <<"a">>, <<"b">>, 0, URL_A)>>)}

\* the metadata saved: the validators of a response at some time
SavedMetadata ==
    {Metadata(now, d.ETag, d.LastModified) : now \in Times, d \in Documents}
    \cup {Metadata(1, InvalidUTF8, "")}

InitCache == InitWith({<<>>}, 0, FALSE)

OnlyCache ==
    UNCHANGED <<ctx, rendering, feeds, faulty, faults, run, runLimit, mode, workers, mainPc, thread,
                feedsChan, feedsClosed, nextFeed, wg, resultsChan, resultsClosed,
                results, log, prevLog, requestCount>>

CacheSaveEntries ==
    \E u \in SavedURLs, entries \in SavedEntries, now \in Times :
        /\ cache' = SaveEntries(cache, u, entries, now, "ok").cache
        /\ call' = Call("SaveEntries", u, entries, ZeroMetadata)
        /\ OnlyCache

CacheSaveMetadata ==
    \E u \in SavedURLs, meta \in SavedMetadata :
        /\ cache' = SaveMetadata(cache, u, meta, "ok", "ok").cache
        /\ call' = Call("SaveMetadata", u, NilSlice, meta)
        /\ OnlyCache

\* a record file is left unparseable (os.WriteFile truncates the file and
\* then writes: a process killed in between leaves a partial document)
CacheDamage ==
    \E u \in SavedURLs :
        /\ cache[cachePath(u)].state = "ok"
        /\ cache' = [cache EXCEPT ![cachePath(u)] = CorruptFile]
        /\ call' = Call("damage", u, NilSlice, ZeroMetadata)
        /\ OnlyCache

NextCache == CacheSaveEntries \/ CacheSaveMetadata \/ CacheDamage

SpecCache == InitCache /\ [][NextCache]_vars

(***************************************************************************)
(* The cache directory read as a whole, as TestCache_LoadAll does: records *)
(* are saved (and damaged), then LoadAll is called; some of the files may  *)
(* be unreadable for that call.                                            *)
(***************************************************************************)
CacheLoadAll ==
    \E unreadable \in SUBSET {p \in Paths : cache[p].state # "absent"} :
        /\ ~allEntries.done
        /\ LET out == LoadAll(cache, unreadable)
           IN  allEntries' = [done |-> TRUE, entries |-> out.entries,
                              err |-> out.err, unreadable |-> unreadable]
        /\ call' = Call("LoadAll", <<>>, NilSlice, ZeroMetadata)
        /\ UNCHANGED <<poster, tally, pure, ctx, cfg, filtered, cache, feeds, faulty, faults, run,
                       runLimit, mode, workers, mainPc, thread, feedsChan,
                       feedsClosed, nextFeed, wg, resultsChan, resultsClosed,
                       results, log, prevLog, requestCount>>

\* the records are written before the directory is read
NextCacheDir ==
    \/ ~allEntries.done /\ CacheSaveEntries
    \/ ~allEntries.done /\ CacheSaveMetadata
    \/ ~allEntries.done /\ CacheDamage
    \/ CacheLoadAll

SpecCacheDir == InitCache /\ [][NextCacheDir]_vars

(***************************************************************************)
(* convertEntries on its own: a parsed feed of up to two items, each with  *)
(* or without a published and an updated time, under a channel with or     *)
(* without an updated time, converted at some time of the clock.  The      *)
(* times of the feed differ from every time of the clock.                  *)
(***************************************************************************)
OnlyPure ==
    UNCHANGED <<poster, tally, ctx, cfg, allEntries, filtered, call, feeds, cache, faulty,
                faults, run, runLimit, mode, workers, mainPc, thread,
                feedsChan, feedsClosed, nextFeed, wg, resultsChan,
                resultsClosed, results, log, prevLog, requestCount>>

ParsedItems ==
    {Item("g", <<"a">>, <<>>, <<"b">>, published, updated) :
        published \in {0, Published}, updated \in {0, Updated}}

ParsedFeeds ==
    {[Items |-> items, UpdatedParsed |-> updated, ETag |-> "", LastModified |-> ""] :
        items \in {<<>>} \cup {<<i>> : i \in ParsedItems}
                 \cup {<<i, j>> : i \in ParsedItems, j \in ParsedItems},
        updated \in {0, ChannelUpdated}}

InitConvert ==
    /\ InitFetch({<<URL_A>>}, 0, FALSE)
    /\ ctx = "background"
    /\ cfg = NoPatterns(Len(feeds))
    /\ allEntries = NotLoaded
    /\ filtered = NotFiltered
    /\ pure \in {[op |-> "none", input |-> [feed |-> d, now |-> now], output |-> <<>>] :
                    d \in ParsedFeeds, now \in Times}

\* f.convertEntries(feed, feedConfig) of the sequential or the parallel
\* fetcher
Convert(fetcher) ==
    /\ pure.op = "none"
    /\ pure' = [pure EXCEPT !.op = fetcher,
                            !.output = convertEntries(pure.input.feed, feeds[1])]
    /\ OnlyPure

NextConvert == \E fetcher \in {"SequentialFetcher", "ParallelFetcher"} : Convert(fetcher)

SpecConvert == InitConvert /\ [][NextConvert]_vars

(***************************************************************************)
(* sanitizeURL on its own, as TestSanitizeURL does: every string of up to  *)
(* three characters of a small alphabet, bare, behind a scheme and behind  *)
(* a run of letters that ends one character before the length cap; the key *)
(* is then computed once more from the same URL, or from the key itself.   *)
(***************************************************************************)
SanitizedAlphabet == {"a", "-", "/", "_", ".", ":", "%"}

ShortStrings ==
    {<<>>} \cup {<<x>> : x \in SanitizedAlphabet}
           \cup {<<x, y>> : x \in SanitizedAlphabet, y \in SanitizedAlphabet}
           \cup {<<x, y, z>> : x \in SanitizedAlphabet, y \in SanitizedAlphabet,
                              z \in SanitizedAlphabet}

SanitizedURLs ==
    ShortStrings
    \cup {<<"h", "t", "t", "p", ":", "/", "/">> \o t : t \in ShortStrings}
    \cup {[i \in 1..(MaxKeyLen - 1) |-> "b"] \o t : t \in ShortStrings}

InitSanitize ==
    /\ InitFetch({<<>>}, 0, FALSE)
    /\ ctx = "background"
    /\ cfg = NoPatterns(Len(feeds))
    /\ allEntries = NotLoaded
    /\ filtered = NotFiltered
    /\ pure \in {[op |-> "none", input |-> u, output |-> <<>>] : u \in SanitizedURLs}

\* sanitizeURL(url)
Sanitize ==
    /\ pure.op = "none"
    /\ pure' = [pure EXCEPT !.op = "sanitizeURL", !.output = sanitizeURL(pure.input)]
    /\ OnlyPure

\* sanitizeURL(url) once more
SanitizeSame ==
    /\ pure.op = "sanitizeURL"
    /\ pure' = [pure EXCEPT !.op = "same", !.output = sanitizeURL(pure.input)]
    /\ OnlyPure

\* sanitizeURL(key) for the key just returned
SanitizeKey ==
    /\ pure.op = "sanitizeURL"
    /\ pure' = [op |-> "key", input |-> pure.output,
                output |-> sanitizeURL(pure.output)]
    /\ OnlyPure

NextSanitize == Sanitize \/ SanitizeSame \/ SanitizeKey

SpecSanitize == InitSanitize /\ [][NextSanitize]_vars

(***************************************************************************)
(* One run over at most one source and a cache that an earlier run left    *)
(* behind: the record of the source holds the entries of a response and    *)
(* its validators, each of the two present or not, and may have been       *)
(* damaged since; cache I/O can fail during the run.                       *)
(***************************************************************************)
StoredValidators ==
    {[ETag |-> etag, LastModified |-> lastModified] :
        etag \in {"", "e1"}, lastModified \in {"", "d1"}}

InitRequest == InitWith({l \in FeedLists : Len(l) <= 1}, 1, TRUE)

\* the success path of fetchOne in an earlier run: SaveEntries, then
\* SaveMetadata with the validators of the response
EarlierRun ==
    \E i \in 1..numFeeds, d \in Documents, v \in StoredValidators, damaged \in BOOLEAN :
        /\ run = 0
        /\ call = NoCall
        /\ LET u == feeds[i]
               meta == Metadata(0, v.ETag, v.LastModified)
               entries == convertEntries(d, u)
               saved == SaveMetadata(SaveEntries(cache, u, entries, 0, "ok").cache,
                                     u, meta, "ok", "ok").cache
           IN  /\ cache' = IF damaged
                           THEN [saved EXCEPT ![cachePath(u)] = CorruptFile]
                           ELSE saved
               /\ call' = Call("SaveMetadata", u, entries, meta)
        /\ OnlyCache

NextRequest == EarlierRun \/ Next

SpecRequest == InitRequest /\ [][NextRequest]_vars

(***************************************************************************)
(* One parallel run in which every goroutine that can take a step is       *)
(* scheduled in the end (the Go scheduler starves no runnable goroutine)   *)
(* and every fetchOne returns (client.Do is bounded by the timeout of the  *)
(* http.Client).                                                           *)
(***************************************************************************)
InitParallel == InitWith(FeedLists, 1, FALSE)

\* the steps of fetchOne in worker w
FetchOne(w) ==
    \/ FetchRequest(w)
    \/ FetchCreateRequestFails(w)
    \/ FetchFallback(w)
    \/ FetchNotModified(w)
    \/ FetchSaveEntries(w)
    \/ FetchSaveMetadataLoad(w)
    \/ FetchSaveMetadataStore(w)

NextParallel ==
    \/ \E configured \in WorkerCounts : StartParallel(configured)
    \/ \E w \in Workers : FetchOne(w)
    \/ \E w \in Workers : WorkerReceive(w)
    \/ \E w \in Workers : WorkerSend(w)
    \/ \E w \in Workers : WorkerExit(w)
    \/ FeederSend
    \/ FeederClose
    \/ CloseResults
    \/ Collect
    \/ ParReturn

\* worker w is inside fetchOne: one of its steps can be taken
FetchOneEnabled(w) ==
    thread[w].pc \in {"loadMetadata", "fallback", "notModified", "saveEntries",
                      "saveMetadataLoad", "saveMetadataStore"}

\* the goroutines of the run: worker w at its channels, the feeder, the
\* closer and the caller in its collecting loop
WorkerLoop(w) == WorkerReceive(w) \/ WorkerSend(w) \/ WorkerExit(w)
Feeder == FeederSend \/ FeederClose
Collector == Collect \/ ParReturn

\* weak fairness of each goroutine; for fetchOne it is WF_vars(FetchOne(w))
\* written out, with ENABLED <<FetchOne(w)>>_vars as the state predicate
\* FetchOneEnabled(w)
Scheduled ==
    /\ \A w \in Workers :
          /\ WF_vars(WorkerLoop(w))
          /\ \/ []<>(~FetchOneEnabled(w))
             \/ []<><<FetchOne(w)>>_vars
    /\ WF_vars(Feeder)
    /\ WF_vars(CloseResults)
    /\ WF_vars(Collector)

SpecParallel == InitParallel /\ [][NextParallel]_vars /\ Scheduled

(***************************************************************************)
(* twitter.Poster.PostNewArticles, called once per run of "planet post"    *)
(* with the entries read from the cache.  An entry is its ID and its date; *)
(* the tracking file is the list of the IDs it records.  LoadAll removes   *)
(* no duplicate, so two entries of a call may carry the same ID (the same  *)
(* article in two feeds).  A tweet can fail; the tracking file can fail    *)
(* only in a behaviour with cache I/O failures.                            *)
(***************************************************************************)
ArticleIDs == {"x", "y", "z"}

Article(id, date) == [ID |-> id, Date |-> date]

PostedEntries ==
    LET articles == {Article(id, date) : id \in ArticleIDs, date \in 1..2}
    IN  {<<>>} \cup {<<a>> : a \in articles}
               \cup {<<a, b>> : a \in articles, b \in articles}

\* maxInitial: postToTwitter passes 5
InitialLimits == {1, 5}

\* sort.Slice(sortedEntries, Date.Before): not stable, so any order of the
\* entries in which no entry stands before an older one
RECURSIVE SortedByDate(_)
SortedByDate(entries) ==
    IF entries = <<>> THEN {<<>>}
    ELSE LET n == Len(entries)
             oldest == {i \in 1..n :
                           \A j \in 1..n : ~(entries[j].Date < entries[i].Date)}
             Without(i) == SubSeq(entries, 1, i - 1) \o SubSeq(entries, i + 1, n)
         IN  UNION {{<<entries[i]>> \o rest : rest \in SortedByDate(Without(i))} :
                       i \in oldest}

\* p.isPosted(entryID, tracking)
isPosted(entryID, tracking) ==
    \E i \in 1..Len(tracking) : tracking[i] = entryID

\* the loop "Find new articles"
NewArticles(sortedEntries, tracking) ==
    LET Unposted(entry) == ~isPosted(entry.ID, tracking)
    IN  SelectSeq(sortedEntries, Unposted)

\* "Limit to maxInitial on first run"
ArticlesToPost(newArticles, isFirstRun, maxInitial) ==
    IF isFirstRun /\ Len(newArticles) > maxInitial
    THEN SubSeq(newArticles, Len(newArticles) - maxInitial + 1, Len(newArticles))
    ELSE newArticles

\* the IDs of the entries of a call that are not selected for posting
LeftOut(entries, articlesToPost) ==
    {entries[i].ID : i \in 1..Len(entries)}
        \ {articlesToPost[i].ID : i \in 1..Len(articlesToPost)}

\* the loop "Post each article" from article i on: posts[i] is whether
\* postTweet succeeds for it, saves[i] whether saveTracking does
RECURSIVE PostEach(_, _, _, _, _)
PostEach(st, articlesToPost, posts, saves, i) ==
    IF i > Len(articlesToPost) THEN st
    ELSE IF ~posts[i] THEN PostEach(st, articlesToPost, posts, saves, i + 1)
    ELSE LET tracking == Append(st.tracking, articlesToPost[i].ID)
         IN  PostEach([tracking |-> tracking,
                       file |-> IF saves[i] THEN tracking ELSE st.file,
                       sent |-> Append(st.sent, articlesToPost[i].ID)],
                      articlesToPost, posts, saves, i + 1)

InitPoster ==
    /\ InitFetch({<<>>}, MaxRuns + 1, FALSE)
    /\ ctx = "background"
    /\ cfg = NoPatterns(Len(feeds))
    /\ allEntries = NotLoaded
    /\ filtered = NotFiltered
    /\ pure = NotCalled

OnlyPoster ==
    UNCHANGED <<tally, pure, ctx, cfg, allEntries, filtered, call, feeds, cache,
                faulty, faults, run, runLimit, mode, workers, mainPc, thread,
                feedsChan, feedsClosed, nextFeed, wg, resultsChan,
                resultsClosed, results, log, prevLog, requestCount>>

\* p.PostNewArticles(entries, feedConfigs, maxInitial)
PostNewArticles ==
    \E entries \in PostedEntries, maxInitial \in InitialLimits,
       loaded \in IF faulty THEN BOOLEAN ELSE {TRUE} :
    \E sortedEntries \in SortedByDate(entries),
       posts \in [1..Len(entries) -> BOOLEAN],
       saves \in [1..Len(entries) -> IF faulty THEN BOOLEAN ELSE {TRUE}] :
        /\ poster.calls < runLimit
        /\ poster' =
              IF ~loaded
              THEN [poster EXCEPT !.calls = @ + 1, !.tracked = <<>>,
                                  !.sent = <<>>, !.err = TRUE]
              ELSE LET tracking == poster.file
                       isFirstRun == Len(tracking) = 0
                       newArticles == NewArticles(sortedEntries, tracking)
                       articlesToPost ==
                           ArticlesToPost(newArticles, isFirstRun, maxInitial)
                       out == PostEach([tracking |-> tracking, file |-> poster.file,
                                        sent |-> <<>>],
                                       articlesToPost, posts, saves, 1)
                   IN  [file |-> out.file, tweets |-> poster.tweets \o out.sent,
                        calls |-> poster.calls + 1, tracked |-> tracking,
                        sent |-> out.sent, err |-> FALSE,
                        leftOut |-> IF isFirstRun
                                    THEN LeftOut(entries, articlesToPost)
                                    ELSE poster.leftOut]
        /\ OnlyPoster

NextPoster == PostNewArticles

SpecPoster == InitPoster /\ [][NextPoster]_vars

(***************************************************************************)
(* "planet post", run after run: runPost takes the entries of the          *)
(* load-and-filter stage, keeps the most recent ones and hands them to     *)
(* postToTwitter, which calls PostNewArticles with its own first-run       *)
(* limit.  Between two runs a fetch can have cached a new article.  The    *)
(* articles are those of one timeline, each with its own date; every tweet *)
(* and every write of the tracking file succeeds.                          *)
(***************************************************************************)
\* runPost: limitEntries(filtered, 10)
MaxTwitterEntries == 10
\* postToTwitter: maxInitial := 5
MaxInitial == 5

TimelineLen == MaxTwitterEntries + MaxRuns
Timeline == [i \in 1..TimelineLen |-> Article(i, i)]

Reverse(s) == [i \in 1..Len(s) |-> s[Len(s) + 1 - i]]

\* sortEntriesByDate: a copy sorted newest first by sort.Slice, so any
\* order in which no entry stands before a newer one
sortEntriesByDate(entries) == {Reverse(s) : s \in SortedByDate(entries)}

\* limitEntries
limitEntries(entries, maxEntries) ==
    IF maxEntries <= 0 \/ Len(entries) <= maxEntries
    THEN sortEntriesByDate(entries)
    ELSE {SubSeq(sorted, 1, maxEntries) : sorted \in sortEntriesByDate(entries)}

InitPost ==
    /\ InitFetch({<<>>}, MaxRuns + 1, FALSE)
    /\ ctx = "background"
    /\ cfg = NoPatterns(Len(feeds))
    /\ allEntries = NotLoaded
    /\ filtered = [by |-> "ApplyPerFeed", entries |-> Slice(<<>>), err |-> FALSE]
    /\ pure = NotCalled

\* a fetch caches the next article of the timeline, and the load-and-filter
\* stage of the next run hands it on
NewArticle ==
    /\ Len(filtered.entries.elems) < TimelineLen
    /\ filtered' = [filtered EXCEPT
                       !.entries = Slice(Append(@.elems, Timeline[Len(@.elems) + 1]))]
    /\ OnlyFiltered

\* runPost with posting enabled and entries in the cache: limitEntries,
\* then postToTwitter
RunPost ==
    /\ poster.calls < runLimit
    /\ Len(filtered.entries.elems) > 0
    /\ \E limited \in limitEntries(filtered.entries.elems, MaxTwitterEntries) :
       \E sortedEntries \in SortedByDate(limited) :
          LET tracking == poster.file
              isFirstRun == Len(tracking) = 0
              newArticles == NewArticles(sortedEntries, tracking)
              articlesToPost == ArticlesToPost(newArticles, isFirstRun, MaxInitial)
              out == PostEach([tracking |-> tracking, file |-> poster.file,
                               sent |-> <<>>],
                              articlesToPost,
                              [i \in 1..Len(articlesToPost) |-> TRUE],
                              [i \in 1..Len(articlesToPost) |-> TRUE], 1)
          IN  poster' = [file |-> out.file, tweets |-> poster.tweets \o out.sent,
                         calls |-> poster.calls + 1, tracked |-> tracking,
                         sent |-> out.sent, err |-> FALSE,
                         leftOut |-> IF isFirstRun
                                     THEN LeftOut(filtered.entries.elems,
                                                  articlesToPost)
                                     ELSE poster.leftOut]
    /\ OnlyPoster

NextPost == NewArticle \/ RunPost

SpecPost == InitPost /\ [][NextPost]_vars

(***************************************************************************)
(* Properties.                                                             *)
(***************************************************************************)
\* the entries LoadEntries finds in the file at path p
StoredEntries(c, p) == IF c[p].state = "ok" THEN c[p].feed.Entries ELSE NilSlice

\* thread t takes a step of fetchOne
Steps(t) == thread'[t] # thread[t] /\ thread[t].feed # 0

\* thread t is persisting a successfully parsed 200 response
Persisting(t) ==
    /\ thread[t].pc \in {"saveEntries", "saveMetadataLoad", "saveMetadataStore"}
    /\ Outcome(thread[t].resp) = "ok"

PathOf(t) == cachePath(feeds[thread[t].feed])

\* C1: the entries of a record change only in a step of a fetch whose
\* parser succeeded on a 200 response, and are then exactly the entries
\* converted from that parse.
C1_EntriesOnlyFromSuccessfulParse ==
    [][\A p \in Paths :
          StoredEntries(cache', p) # StoredEntries(cache, p) =>
              \E t \in Threads :
                  /\ Steps(t)
                  /\ Persisting(t)
                  /\ PathOf(t) = p
                  /\ StoredEntries(cache', p)
                       = convertEntries(thread[t].resp.doc, feeds[thread[t].feed])]_vars

\* how many results carry the URL u, how many sources have it
ResultsFor(u) == Cardinality({k \in 1..Len(results) : results[k].URL = u})
SourcesWith(u) == Cardinality({i \in 1..numFeeds : feeds[i] = u})

\* C2: for N >= 1 sources and 1 <= W <= N workers the parallel FetchFeeds
\* returns exactly N results and every source contributes exactly one of
\* them, in whatever order.
C2_ParallelOneResultPerSource ==
    (/\ mode = "parallel"
     /\ mainPc = "returned"
     /\ numFeeds >= 1
     /\ workers \in 1..numFeeds)
    => /\ Len(results) = numFeeds
       /\ \A i \in 1..numFeeds : log[i].returned = 1
       /\ \A u \in URLs : ResultsFor(u) = SourcesWith(u)

\* two workers returned the results of two sources in the opposite order
C2_Witness ==
    /\ mode = "parallel"
    /\ mainPc = "returned"
    /\ numFeeds = 2
    /\ workers = 2
    /\ Len(results) = 2
    /\ feeds[1] # feeds[2]
    /\ results[1].URL = feeds[2]
    /\ results[2].URL = feeds[1]

\* source i was fetched successfully in the previous run, which stored a
\* revalidation tag, and in this run its request carried that tag and was
\* answered 304
Revalidated(i) ==
    /\ prevLog[i].outcome = "ok"
    /\ prevLog[i].etag # ""
    /\ log[i].outcome = "notModified"
    /\ log[i].ifNoneMatch = prevLog[i].etag
    /\ log[i].returned = 1

\* C3: in both strategies a source fetched successfully with tag E whose
\* conditional request is answered "not modified" in the next run gets a
\* result served from cache, without error, with the entries of the prior
\* successful fetch, without a parse and with one request in each run.
C3_NotModifiedServesPriorEntries ==
    \A i \in 1..numFeeds :
        Revalidated(i) =>
            /\ log[i].result.Cached
            /\ log[i].result.Error = ""
            /\ log[i].result.Entries = prevLog[i].result.Entries
            /\ log[i].parses = 0
            /\ log[i].requests = 1
            /\ prevLog[i].requests = 1

\* source i was fetched successfully in the previous run and its request
\* failed at the transport level in this run
FailedAfterSuccess(i) ==
    /\ prevLog[i].outcome = "ok"
    /\ log[i].outcome = "transport"
    /\ log[i].returned = 1

\* C4: after a successful fetch of a source (of any number of items, zero
\* included) a later run whose request fails at the transport level returns
\* exactly the entries that fetch cached, Cached = true and a non-nil error,
\* and leaves the cache record unchanged.
C4_TransportFailureServesPriorEntries ==
    [][/\ \A i \in 1..numFeeds :
              FailedAfterSuccess(i)' =>
                  /\ log'[i].result.Entries = prevLog'[i].result.Entries
                  /\ log'[i].result.Cached
                  /\ log'[i].result.Error # ""
       /\ \A t \in Threads :
              (Steps(t) /\ thread[t].pc = "fallback") => cache' = cache]_vars

\* thread t ends a fetch whose 200 response did not parse
ParseFails(t) ==
    /\ Steps(t)
    /\ thread[t].pc = "loadMetadata"
    /\ Outcome(thread'[t].resp) = "parse"

\* C5: a 200 response that fails to parse gives a result with an error,
\* Cached = false and no entries, and the fetch leaves the cache record,
\* entries and metadata, exactly as it was.
C5_ParseFailureLeavesRecord ==
    [][/\ \A t \in Threads :
              ParseFails(t) =>
                  /\ thread'[t].pc = "return"
                  /\ thread'[t].result.Error # ""
                  /\ ~thread'[t].result.Cached
                  /\ thread'[t].result.Entries = NilSlice
                  /\ cache' = cache
       /\ \A i \in 1..numFeeds :
              (log'[i].outcome = "parse" /\ log'[i].returned = 1) =>
                  /\ log'[i].result.Error # ""
                  /\ ~log'[i].result.Cached
                  /\ log'[i].result.Entries = NilSlice]_vars

\* a source with a record of two entries and a tag was fetched again, the
\* 200 response did not parse, and the result has been handed back
C5_Witness ==
    \E i \in 1..numFeeds :
        /\ log[i].outcome = "parse"
        /\ log[i].returned = 1
        /\ prevLog[i].outcome = "ok"
        /\ cache[cachePath(feeds[i])].state = "ok"
        /\ Len(cache[cachePath(feeds[i])].feed.Entries.elems) = 2
        /\ cache[cachePath(feeds[i])].feed.Metadata.ETag # ""

\* the own fetch of source i failed
OwnFailure(i) ==
    log[i].outcome \in {"create", "transport", "status", "body", "parse", "notModified"}

\* C6: in both strategies FetchFeeds returns a FetchResult for every source,
\* whatever happened to the others (transport, status, parse or cache I/O
\* failure); an error appears only in the result of the source that failed.
C6_ResultForEverySource ==
    mainPc = "returned" =>
        /\ Len(results) = numFeeds
        /\ \A i \in 1..numFeeds :
              /\ log[i].returned = 1
              /\ \E k \in 1..Len(results) : results[k].URL = feeds[i]
              /\ log[i].result.Error # "" => OwnFailure(i)

PairwiseDistinct(s) == \A i, j \in 1..Len(s) : i # j => s[i] # s[j]

\* thread t is inside fetchOne, between LoadMetadata and the last write
InFetch(t) ==
    thread[t].pc \in {"loadMetadata", "fallback", "notModified", "saveEntries",
                      "saveMetadataLoad", "saveMetadataStore"}

\* C7: in a parallel run over pairwise distinct URLs no two workers work on
\* the same cache record file, since distinct URLs have distinct cache keys.
C7_NoSharedRecordFile ==
    (mode = "parallel" /\ PairwiseDistinct(feeds)) =>
        \A v, w \in Workers :
            (v # w /\ InFetch(v) /\ InFetch(w)) => PathOf(v) # PathOf(w)

\* C8: in one run every source is queued once, taken by exactly one worker
\* and requested exactly once, never retried; over k runs a source is
\* requested exactly k times.
C8_ExactlyOneRequestPerRun ==
    /\ \A i \in 1..numFeeds : log[i].taken <= 1 /\ log[i].requests <= 1
    /\ mainPc = "returned" =>
          \A i \in 1..numFeeds :
              /\ log[i].taken = 1
              /\ log[i].requests = 1
              /\ requestCount[i] = run

\* C9: SequentialFetcher.FetchFeeds handles the sources one after the other
\* in input order; result i carries the URL of source i and there are as
\* many results as sources.
C9_SequentialInInputOrder ==
    mode = "sequential" =>
        /\ \A k \in 1..Len(results) : k <= numFeeds /\ results[k].URL = feeds[k]
        /\ mainPc = "returned" => Len(results) = numFeeds
        /\ \A i \in 1..numFeeds :
              /\ i <= Len(results) => log[i].returned = 1
              /\ i > Len(results) + 1 => log[i].taken = 0
        /\ thread[0].feed # 0 => thread[0].feed = Len(results) + 1

\* a sequential run over two different sources has returned
C9_Witness ==
    /\ mode = "sequential"
    /\ mainPc = "returned"
    /\ numFeeds = 2
    /\ feeds[1] # feeds[2]
    /\ Len(results) = 2
    /\ results[1].URL = feeds[1]
    /\ results[2].URL = feeds[2]

C11_LoadReturnsSaved ==
    [][(call'.op = "SaveEntries" /\ Len(call'.entries.elems) > 0) =>
          LoadEntries(cache', call'.url, "ok")
            = [entries |-> call'.entries, err |-> FALSE]]_vars

\* C11: LoadEntries(url) after a successful SaveEntries(url, X) with X not
\* empty returns X as JSON encodes it, same entries in the same order, that
\* is X itself when its strings are valid UTF-8, whatever record was there
\* before.
C11_LoadReturnsSavedAsEncoded ==
    [][(call'.op = "SaveEntries" /\ Len(call'.entries.elems) > 0) =>
          /\ LoadEntries(cache', call'.url, "ok")
               = [entries |-> MarshalEntries(call'.entries), err |-> FALSE]
          /\ ValidEntries(call'.entries)
               => LoadEntries(cache', call'.url, "ok").entries = call'.entries]_vars

\* SaveEntries has written two entries and the record holds them
C11_Witness ==
    /\ call.op = "SaveEntries"
    /\ Len(call.entries.elems) = 2
    /\ cache[cachePath(call.url)].state = "ok"
    /\ cache[cachePath(call.url)].feed.Entries = call.entries

\* what fetchOne returns for source i when its request fails at the
\* transport level, the cache being c and its read ending as io
AfterTransportFailure(c, i, io) ==
    WithFallback(FetchResult(feeds[i], NilSlice, FALSE, "fetch feed"),
                 LoadEntries(c, feeds[i], io))

\* thread t ends a fetch that was answered with a status other than 200
\* and 304
StatusFails(t) ==
    /\ Steps(t)
    /\ thread[t].pc # "return"
    /\ thread'[t].pc = "return"
    /\ Outcome(thread'[t].resp) = "status"

\* C12: for a status other than 200 and 304 the result (error set, entries,
\* Cached) and the cache afterwards are those of a transport failure met in
\* the same cache state.
C12_StatusFailureLikeTransportFailure ==
    [][\A t \in Threads :
          StatusFails(t) =>
              /\ cache' = cache
              /\ \E io \in IOOutcomes(faulty) :
                    LET r == thread'[t].result
                        x == AfterTransportFailure(cache, thread[t].feed, io)
                    IN  /\ faults' = faults + Failed(io)
                        /\ r.URL = x.URL
                        /\ r.Entries = x.Entries
                        /\ r.Cached = x.Cached
                        /\ r.Error # ""
                        /\ x.Error # ""]_vars

\* a source with a record of two entries was answered 500 and its result
\* carries the two entries
C12_Witness ==
    \E i \in 1..numFeeds :
        /\ log[i].outcome = "status"
        /\ log[i].returned = 1
        /\ log[i].result.Cached
        /\ log[i].result.Error # ""
        /\ Len(log[i].result.Entries.elems) = 2

\* C13: once the context is cancelled no source that is still waiting is
\* dequeued and started by a worker, and the sequential loop starts no
\* further source.
C13_NoSourceStartedAfterCancel ==
    [][ctx = "cancelled" => \A i \in 1..numFeeds : log'[i].taken = log[i].taken]_vars

(***************************************************************************)
(* The filters.                                                            *)
(***************************************************************************)
\* the entries handed to the filter and the entries it returned
Inputs == {allEntries.entries.elems[i] : i \in 1..Len(allEntries.entries.elems)}
Kept(entry) ==
    \E i \in 1..Len(filtered.entries.elems) : filtered.entries.elems[i] = entry

\* the entries returned stand in the order they had in the input
InInputOrder ==
    \A i, j \in 1..Len(filtered.entries.elems) :
        i < j =>
            \E p, q \in 1..Len(allEntries.entries.elems) :
                /\ p < q
                /\ allEntries.entries.elems[p] = filtered.entries.elems[i]
                /\ allEntries.entries.elems[q] = filtered.entries.elems[j]

\* C15: a source whose override defines filter (exclude) as the explicit
\* empty string has that pattern disabled, so that ApplyPerFeed keeps an
\* entry of the source exactly when the patterns resolved with "the override
\* if defined, else the global default" keep it.
C15_ExplicitEmptyDisablesPattern ==
    (filtered.by = "ApplyPerFeed" /\ ~filtered.err) =>
        \A k \in 1..Len(feeds) : \A e \in Inputs :
            LET x == cfg.Extra[k]
                inc == IF x.hasFilter THEN x.filter ELSE cfg.Filter
                exc == IF x.hasExclude THEN x.exclude ELSE cfg.Exclude
            IN  (/\ e.ChannelURL = feeds[k]
                 /\ \/ x.hasFilter /\ x.filter = NoPattern
                    \/ x.hasExclude /\ x.exclude = NoPattern)
                => (Kept(e) <=>
                      /\ inc = NoPattern \/ MatchString(inc, EntryText(e))
                      /\ exc = NoPattern \/ ~MatchString(exc, EntryText(e)))

C17_KeepsEntriesWithoutFilter ==
    (filtered.by = "ApplyPerFeed" /\ ~filtered.err) =>
        \A e \in Inputs :
            (\/ \A k \in 1..Len(feeds) : feeds[k] # e.ChannelURL
             \/ \E k \in 1..Len(feeds) :
                   /\ feeds[k] = e.ChannelURL
                   /\ IncludePattern(cfg.Extra[k], cfg.Filter) = NoPattern
                   /\ ExcludePattern(cfg.Extra[k], cfg.Exclude) = NoPattern)
            => Kept(e)

\* entries of the unconfigured URL and of a source without patterns are
\* kept while the filter of the other source drops one
C17_Witness ==
    /\ filtered.by = "ApplyPerFeed" /\ ~filtered.err
    /\ feeds = <<URL_A, URL_B>>
    /\ IncludePattern(cfg.Extra[1], cfg.Filter) = NoPattern
    /\ ExcludePattern(cfg.Extra[1], cfg.Exclude) = NoPattern
    /\ Kept(Corpus[6]) /\ Kept(Corpus[1]) /\ ~Kept(Corpus[5])

\* C18 as stated: Filter.Apply keeps an entry iff (include empty or matches
\* the text) and (exclude empty or does not match the text); with only an
\* exclude pattern exactly the entries whose title or body contains a match
\* are dropped; the kept entries stand in input order.
C18_ApplyKeepRule ==
    filtered.by = "Apply" =>
        /\ \A e \in Inputs :
              Kept(e) <=>
                /\ cfg.Filter = NoPattern \/ MatchString(cfg.Filter, EntryText(e))
                /\ cfg.Exclude = NoPattern \/ ~MatchString(cfg.Exclude, EntryText(e))
        /\ (cfg.Filter = NoPattern /\ cfg.Exclude # NoPattern) =>
              \A e \in Inputs :
                  ~Kept(e) <=> \/ MatchString(cfg.Exclude, e.Title)
                               \/ MatchString(cfg.Exclude, e.Content)
        /\ InInputOrder

\* C18, amended: Filter.Apply keeps an entry iff (include empty or matches
\* the text) and (exclude empty or does not match the text), the text being
\* the title, one space and the body; with only an exclude pattern exactly
\* the entries whose text contains a match are dropped; the kept entries
\* stand in input order.
C18_ApplyKeepRuleOnText ==
    filtered.by = "Apply" =>
        /\ \A e \in Inputs :
              Kept(e) <=>
                /\ cfg.Filter = NoPattern \/ MatchString(cfg.Filter, EntryText(e))
                /\ cfg.Exclude = NoPattern \/ ~MatchString(cfg.Exclude, EntryText(e))
        /\ (cfg.Filter = NoPattern /\ cfg.Exclude # NoPattern) =>
              \A e \in Inputs :
                  ~Kept(e) <=>
                      MatchString(cfg.Exclude, e.Title \o <<" ">> \o e.Content)
        /\ InInputOrder

\* only an exclude pattern, which matches across the title and the body
C18_Witness ==
    /\ filtered.by = "Apply"
    /\ cfg.Filter = NoPattern /\ cfg.Exclude = <<"a", " ", "b">>
    /\ ~Kept(Corpus[3]) /\ Kept(Corpus[1]) /\ Kept(Corpus[6])

\* C19: every invalid pattern of the configuration, global or of a source,
\* makes ApplyPerFeed return an error and no entries.
C19_InvalidPatternSurfaced ==
    (/\ filtered.by = "ApplyPerFeed"
     /\ \/ ~Compiles(cfg.Filter)
        \/ ~Compiles(cfg.Exclude)
        \/ \E k \in 1..Len(feeds) :
              \/ ~Compiles(cfg.Extra[k].filter)
              \/ ~Compiles(cfg.Extra[k].exclude))
    => (filtered.err /\ filtered.entries = NilSlice)

(***************************************************************************)
(* LoadAll.                                                                *)
(***************************************************************************)
\* the record files LoadAll can read and decode
WellFormed(c, unreadable) ==
    {p \in Paths : c[p].state = "ok" /\ p \notin unreadable}

\* the entries of the records at the paths of order, one record after the
\* other
RECURSIVE Concatenation(_, _)
Concatenation(c, order) ==
    IF order = <<>> THEN <<>>
    ELSE c[Head(order)].feed.Entries.elems \o Concatenation(c, Tail(order))

C14_InvalidPatternStopsBeforeFetch ==
    (\/ ~Compiles(cfg.Filter)
     \/ ~Compiles(cfg.Exclude)
     \/ \E k \in 1..Len(feeds) :
           \/ ~Compiles(cfg.Extra[k].filter)
           \/ ~Compiles(cfg.Extra[k].exclude))
    => /\ \A i \in Sources : requestCount[i] = 0
       /\ \A p \in Paths : cache[p].state = "absent"

C22_KeyShapeAndStability ==
    /\ [](pure.op \in {"sanitizeURL", "same", "key"} =>
            LET key == pure.output
            IN  /\ \A i \in 1..Len(key) :
                      key[i] \in Letters \cup Digits \cup {".", "_", "-"}
                /\ Len(key) >= 1 => key[1] # "-" /\ key[Len(key)] # "-"
                /\ \A i \in 1..(Len(key) - 1) : ~(key[i] = "-" /\ key[i+1] = "-")
                /\ Len(key) <= 200)
    /\ [][/\ pure'.op = "same" => pure'.output = pure.output
          /\ pure'.op = "key" => pure'.output = pure.output]_vars

\* a URL longer than the cap whose cut falls behind a dash: the key was
\* computed, and computed again from itself
C22_Witness ==
    /\ pure.op = "key"
    /\ Len(pure.input) = 199
    /\ pure.output = pure.input
    /\ pure.input = sanitizeURL(pure.input \o <<"/", "a", "a">>)

(***************************************************************************)
(* The fetch stage.                                                        *)
(***************************************************************************)
\* C23: the fetch stage returns no error whatever the outcomes of the
\* sources are; every result is counted as an error or as a success, never
\* as both, and the cached results counted are successes.
C23_FetchStageSucceeds ==
    tally.done =>
        LET failed == {i \in 1..Len(results) : results[i].Error # ""}
            succeeded == {i \in 1..Len(results) : results[i].Error = ""}
        IN  /\ ~tally.err
            /\ tally.errorCount = Cardinality(failed)
            /\ tally.successCount = Cardinality(succeeded)
            /\ tally.errorCount + tally.successCount = Len(results)
            /\ tally.cachedCount =
                  Cardinality({i \in succeeded : results[i].Cached})
            /\ tally.cachedCount <= tally.successCount

\* every source failed and the stage returned no error
C23_Witness ==
    /\ tally.done /\ ~tally.err
    /\ Len(results) = 2
    /\ tally.errorCount = 2 /\ tally.successCount = 0

(***************************************************************************)
(* The worker pool.                                                        *)
(***************************************************************************)
\* the workers that exist, and those inside fetchOne
Started == {w \in Workers : thread[w].pc # "off"}
Fetching == {w \in Workers : thread[w].feed # 0}

\* C24: the parallel FetchFeeds starts min(configured workers, number of
\* sources) workers, none later in the run, and never more than that many
\* fetches are in progress.
C24_FixedWorkerCount ==
    /\ [](mode = "parallel" =>
            Cardinality(Fetching) <= Shorter(workers, numFeeds))
    /\ [][/\ (mode' = "parallel" /\ run' # run) =>
               Cardinality(Started') = Shorter(workers', numFeeds)
          /\ (mode' = "parallel" /\ run' = run) => Started' \subseteq Started]_vars

\* C25: over any sequence of calls of PostNewArticles, a call tweets no
\* article whose ID the tracking file recorded when the call began, no
\* article ID is tweeted twice, in one call or over several, and the
\* tracking file records only IDs of articles that were tweeted
C25_PostedOnce ==
    /\ \A i \in 1..Len(poster.sent) : ~isPosted(poster.sent[i], poster.tracked)
    /\ \A i, j \in 1..Len(poster.tweets) :
          i # j => poster.tweets[i] # poster.tweets[j]
    /\ \A i \in 1..Len(poster.file) : isPosted(poster.file[i], poster.tweets)

\* C28: for every configured worker count (zero, negative, or larger than
\* the number of sources) the parallel FetchFeeds returns exactly one result
\* for each source it was given
C28_OneResultPerSourceForEveryWorkerCount ==
    (mode = "parallel" /\ mainPc = "returned") =>
        /\ Len(results) = numFeeds
        /\ \A u \in URLs : ResultsFor(u) = SourcesWith(u)

\* C27: in a parallel run resultsChan is closed only when every worker has
\* finished, and no worker sends on it once it is closed; when FetchFeeds
\* has returned no fetchOne of the run is in progress and the cache is not
\* written any more, so the LoadAll that follows reads the directory with
\* every write of the run in it
C27_ReturnAfterEveryWrite ==
    /\ []((mode = "parallel" /\ resultsClosed) =>
             (wg = 0 /\ \A w \in Workers : thread[w].pc = "off"))
    /\ [][(mode = "parallel" /\ resultsClosed) =>
             Len(resultsChan') <= Len(resultsChan)]_vars
    /\ []((mode = "parallel" /\ mainPc = "returned") =>
             \A t \in Threads : thread[t].pc = "off")
    /\ [][(mode = "parallel" /\ mainPc = "returned" /\ mainPc' = "returned") =>
             cache' = cache]_vars
    /\ []((mode = "parallel" /\ allEntries.done) =>
             allEntries.entries = LoadAll(cache, {}).entries)

\* two workers fetched two sources with records of their own, both wrote
\* entries, and LoadAll returned the entries of both
C27_Witness ==
    /\ mode = "parallel"
    /\ workers = 2
    /\ numFeeds = 2
    /\ cachePath(feeds[1]) # cachePath(feeds[2])
    /\ \A i \in 1..2 : log[i].outcome = "ok" /\ Len(log[i].result.Entries.elems) > 0
    /\ allEntries.done
    /\ \A i \in 1..2 : \E k \in 1..Len(allEntries.entries.elems) :
          allEntries.entries.elems[k].ChannelURL = feeds[i]

\* C29: for every source the steps of its fetchOne in one run come in this
\* order, in the sequential loop and in every interleaving of the workers:
\* the metadata is loaded and the request built from it is sent; the
\* outcome decides what follows; only after a parsed 200 the entries are
\* written, and the metadata after them; nothing else writes the cache
C29_StepsOfOneFetchInOrder ==
    [][/\ \A t \in Threads :
            LET before == thread[t]
                after == thread'[t]
                outcome == log'[before.feed].outcome
            IN  /\ (before.feed = 0 /\ after.feed # 0) => after.pc = "loadMetadata"
                /\ (Steps(t) /\ before.pc # "return") => after.feed = before.feed
                /\ (Steps(t) /\ before.pc = "loadMetadata") =>
                      /\ cache' = cache
                      /\ after.meta = LoadMetadata(cache, feeds[before.feed], "ok")
                      /\ after.pc # "return" => after.req = Request(after.meta)
                      /\ after.pc = "saveEntries" <=> outcome = "ok"
                      /\ after.pc = "notModified" <=> outcome = "notModified"
                      /\ after.pc = "fallback" <=> outcome \in {"transport", "status"}
                      /\ after.pc \in {"saveEntries", "notModified", "fallback", "return"}
                /\ (Steps(t) /\ before.pc \in {"fallback", "notModified"}) =>
                      (cache' = cache /\ after.pc = "return")
                /\ (Steps(t) /\ before.pc = "saveEntries") =>
                      after.pc = "saveMetadataLoad"
                /\ (Steps(t) /\ before.pc = "saveMetadataLoad") =>
                      (cache' = cache /\ after.pc = "saveMetadataStore")
                /\ (Steps(t) /\ before.pc = "saveMetadataStore") =>
                      after.pc = "return"
                /\ (Steps(t) /\ before.pc = "return") => cache' = cache
       /\ cache' # cache =>
             \E t \in Threads :
                 /\ Steps(t)
                 /\ thread[t].pc \in {"saveEntries", "saveMetadataStore"}
                 /\ Outcome(thread[t].resp) = "ok"]_vars

\* in a parallel run one worker has written the entries and the metadata of
\* its source while the other is between its two writes
C29_Witness ==
    /\ mode = "parallel"
    /\ thread[1].pc = "return"
    /\ Outcome(thread[1].resp) = "ok"
    /\ cache[PathOf(1)].state # "absent"
    /\ thread[2].pc = "saveMetadataLoad"
    /\ PathOf(1) # PathOf(2)

\* C30: the request of a fetch carries If-None-Match exactly when the
\* metadata loaded for the source has a non-empty ETag, and If-Modified-Since
\* exactly when it has a non-empty LastModified, each with the stored value;
\* when the record does not exist or cannot be read the request goes out
\* without either header and the fetch goes on as the response decides
C30_ConditionalHeadersFromMetadata ==
    [][\A t \in Threads :
          (Steps(t) /\ thread[t].pc = "loadMetadata"
                    /\ ParsesAsURL(feeds[thread[t].feed])) =>
              LET i == thread[t].feed
                  file == cache[cachePath(feeds[i])]
                  m == thread'[t].meta
                  req == thread'[t].req
                  readable == file.state = "ok" /\ ~m.err
              IN  /\ m \in {LoadMetadata(cache, feeds[i], io) : io \in {"ok", "fail"}}
                  /\ requestCount'[i] = requestCount[i] + 1
                  /\ req.IfNoneMatch # "" <=>
                        (readable /\ file.feed.Metadata.ETag # "")
                  /\ req.IfModifiedSince # "" <=>
                        (readable /\ file.feed.Metadata.LastModified # "")
                  /\ readable => /\ req.IfNoneMatch = file.feed.Metadata.ETag
                                 /\ req.IfModifiedSince = file.feed.Metadata.LastModified
                  /\ ~readable =>
                        /\ req = NoRequest
                        /\ log'[i].outcome = Outcome(thread'[t].resp)
                        /\ thread'[t].result.Error = "" <=>
                              Outcome(thread'[t].resp) \in {"ok", "notModified"}]_vars

\* a request went out with If-Modified-Since and without If-None-Match: the
\* record held a LastModified and no ETag
C30_Witness ==
    \E t \in Threads :
        /\ thread[t].feed # 0
        /\ log[thread[t].feed].requests = 1
        /\ thread[t].meta.present
        /\ thread[t].req.IfNoneMatch = ""
        /\ thread[t].req.IfModifiedSince = "d1"

\* the feeder has sent every source and closed feedsChan, every worker has
\* left its loop, the closer has closed resultsChan and FetchFeeds has
\* returned
Terminated ==
    /\ mainPc = "returned"
    /\ nextFeed = numFeeds + 1
    /\ feedsClosed
    /\ resultsClosed
    /\ wg = 0
    /\ \A w \in Workers : thread[w].pc = "off"

\* C26: for every number of sources and every configured worker count a
\* parallel FetchFeeds whose fetches all return does return, and the
\* feeder, the workers and the closer all end; the feeder is never blocked
\* on feedsChan and a worker is never blocked sending its result
C26_ParallelFetchTerminates ==
    /\ (mode = "parallel" /\ mainPc = "collect") ~> Terminated
    /\ []((mode = "parallel" /\ numFeeds > 0 /\ nextFeed <= numFeeds) =>
             Len(feedsChan) < numFeeds)
    /\ [](\A w \in Workers :
             (mode = "parallel" /\ thread[w].pc = "return") =>
                 Len(resultsChan) < numFeeds)

\* two workers have fetched two sources, everything has ended and both
\* results were returned
C26_Witness ==
    /\ Terminated
    /\ mode = "parallel"
    /\ workers = 2
    /\ numFeeds = 2
    /\ Len(results) = 2

\* C31: when a fetch that parsed a 200 response has made its two cache
\* writes, LoadEntries of its URL gives the entries of its result and the
\* record holds the ETag and Last-Modified of that response (empty when it
\* has none), whatever it held before; and the request of the next run
\* carries the ETag of that response and no other
C31_SuccessfulFetchStoresResponse ==
    [][\A t \in Threads :
          /\ (Steps(t) /\ thread[t].pc = "saveMetadataStore") =>
                LET url == feeds[thread[t].feed]
                    loaded == LoadEntries(cache', url, "ok")
                    stored == cache'[cachePath(url)].feed.Metadata
                IN  /\ ~loaded.err
                    /\ loaded.entries = thread'[t].result.Entries
                    /\ stored.ETag = thread[t].resp.doc.ETag
                    /\ stored.LastModified = thread[t].resp.doc.LastModified
          /\ (Steps(t) /\ thread[t].pc = "loadMetadata"
                       /\ prevLog[thread[t].feed].outcome = "ok"
                       /\ ParsesAsURL(feeds[thread[t].feed])) =>
                thread'[t].req.IfNoneMatch = prevLog[thread[t].feed].etag]_vars

\* C32: the tag and date of a record always belong to the response whose
\* entries the record holds, also when one of the two writes of a
\* successful fetch fails: a record written by SaveEntries carries no tag
\* and no date, and a record written by SaveMetadata with the tag of a
\* response holds the entries parsed from that response
C32_TagAndEntriesOfOneResponse ==
    [][\A t \in Threads :
          LET path == cachePath(feeds[thread[t].feed])
              record == cache'[path].feed
          IN  /\ (Steps(t) /\ thread[t].pc = "saveEntries" /\ cache' # cache) =>
                    (record.Metadata.ETag = "" /\ record.Metadata.LastModified = "")
              /\ (Steps(t) /\ thread[t].pc = "saveMetadataStore" /\ cache' # cache) =>
                    record.Entries = MarshalEntries(thread[t].result.Entries)]_vars

\* C33: a failed cache read never sets the error of a result: after
\* LoadMetadata the error is set only by what became of the request, a
\* "not modified" answer gives a result without error whether or not the
\* entries can be read, and the fallback leaves the error as the failed
\* request set it
C33_CacheReadFailureIsNoError ==
    [][\A t \in Threads :
          /\ (Steps(t) /\ thread[t].pc = "loadMetadata") =>
                (thread'[t].result.Error = "" <=>
                    log'[thread[t].feed].outcome \in {"ok", "notModified"})
          /\ (Steps(t) /\ thread[t].pc = "notModified") =>
                thread'[t].result.Error = ""
          /\ (Steps(t) /\ thread[t].pc = "fallback") =>
                thread'[t].result.Error = thread[t].result.Error]_vars

\* C34: the result with which a fetchOne returns carries the URL of its
\* source and has one of four shapes: not cached and no error only after a
\* parsed 200; cached and no error only after a 304, with the entries stored
\* in an existing record; cached with an error only after a transport
\* failure or an unexpected status, with a record present; not cached with
\* an error only with no entries
C34_ResultShapes ==
    [][\A t \in Threads :
          (Steps(t) /\ thread[t].pc # "return" /\ thread'[t].pc = "return") =>
              LET i == thread[t].feed
                  r == thread'[t].result
                  outcome == log'[i].outcome
                  file == cache[cachePath(feeds[i])]
              IN  /\ r.URL = feeds[i]
                  /\ (~r.Cached /\ r.Error = "") => outcome = "ok"
                  /\ (r.Cached /\ r.Error = "") =>
                        /\ outcome = "notModified"
                        /\ file.state = "ok"
                        /\ r.Entries = file.feed.Entries
                  /\ (r.Cached /\ r.Error # "") =>
                        /\ outcome \in {"transport", "status"}
                        /\ file.state = "ok"
                  /\ (~r.Cached /\ r.Error # "") => Len(r.Entries.elems) = 0]_vars

\* C35: a record changes only in a write of a successful fetch of a source
\* with that record's key, so the record of a source with another key is
\* never touched; the 'not modified' and the fallback path change no
\* record; and no record is ever deleted
C35_OnlyOwnRecordWritten ==
    [][/\ \A p \in Paths :
             cache'[p] # cache[p] =>
                 /\ cache'[p].state # "absent"
                 /\ \E t \in Threads :
                        /\ Steps(t)
                        /\ Persisting(t)
                        /\ thread[t].pc \in {"saveEntries", "saveMetadataStore"}
                        /\ PathOf(t) = p
       /\ \A t \in Threads :
             (Steps(t) /\ thread[t].pc \in {"notModified", "fallback"}) =>
                 cache' = cache]_vars

\* in the second run a source with a record of its own was served from the
\* cache after a failed request while the other source has its record too
C35_Witness ==
    /\ run = 2
    /\ numFeeds = 2
    /\ cachePath(feeds[1]) # cachePath(feeds[2])
    /\ \A i \in 1..2 : cache[cachePath(feeds[i])].state = "ok"
    /\ \E t \in Threads :
          /\ thread[t].pc = "return"
          /\ thread[t].feed = 1
          /\ log[1].outcome = "transport"
          /\ thread[t].result.Cached

\* C36: include and exclude are resolved independently per source: a source
\* that has its own filter ignores the global filter, one that has its own
\* exclude ignores the global exclude, and the pattern it does not define
\* is the global one, so that ApplyPerFeed keeps an entry of a source with
\* an override exactly when the patterns resolved that way keep it.
C36_ResolvedIndependently ==
    (filtered.by = "ApplyPerFeed" /\ ~filtered.err) =>
        \A k \in 1..Len(feeds) : \A e \in Inputs :
            LET x == cfg.Extra[k]
                inc == IF x.hasFilter THEN x.filter ELSE cfg.Filter
                exc == IF x.hasExclude THEN x.exclude ELSE cfg.Exclude
            IN  (e.ChannelURL = feeds[k] /\ (x.hasFilter \/ x.hasExclude))
                => (Kept(e) <=>
                      /\ inc = NoPattern \/ MatchString(inc, EntryText(e))
                      /\ exc = NoPattern \/ ~MatchString(exc, EntryText(e)))

\* C37: with a global include or exclude pattern configured, every entry
\* that the load-and-filter stage hands on belongs to a configured source
\* and satisfies the patterns resolved for that source; an entry loaded
\* from the record of a source that is no longer configured is not handed
\* on unfiltered.
C37_HandedOnEntriesAreFiltered ==
    (/\ filtered.by = "ApplyPerFeed"
     /\ ~filtered.err
     /\ cfg.Filter # NoPattern \/ cfg.Exclude # NoPattern) =>
        \A e \in Inputs :
            Kept(e) =>
                \E k \in 1..Len(feeds) :
                    /\ feeds[k] = e.ChannelURL
                    /\ Keeps(New(IncludePattern(cfg.Extra[k], cfg.Filter),
                                 ExcludePattern(cfg.Extra[k], cfg.Exclude)), e)

\* C38 as stated: the text a pattern is matched against is the title
\* followed by the body with nothing between them, so that Filter.Apply
\* with one pattern keeps (include) or drops (exclude) exactly the entries
\* whose title followed by the body matches.
C38_TextIsTitleThenBody ==
    filtered.by = "Apply" =>
        \A e \in Inputs :
            /\ (cfg.Filter # NoPattern /\ cfg.Exclude = NoPattern) =>
                  (Kept(e) <=> MatchString(cfg.Filter, e.Title \o e.Content))
            /\ (cfg.Filter = NoPattern /\ cfg.Exclude # NoPattern) =>
                  (Kept(e) <=> ~MatchString(cfg.Exclude, e.Title \o e.Content))

\* C38, amended: the text is the title, one space and the body.
C38_TextIsTitleSpaceBody ==
    filtered.by = "Apply" =>
        \A e \in Inputs :
            /\ (cfg.Filter # NoPattern /\ cfg.Exclude = NoPattern) =>
                  (Kept(e) <=>
                     MatchString(cfg.Filter, e.Title \o <<" ">> \o e.Content))
            /\ (cfg.Filter = NoPattern /\ cfg.Exclude # NoPattern) =>
                  (Kept(e) <=>
                     ~MatchString(cfg.Exclude, e.Title \o <<" ">> \o e.Content))

\* the include pattern "a b" alone keeps the entry with the title "a" and
\* the body "b" and drops the entry with the title "b" and the body "a"
C38_Witness ==
    /\ filtered.by = "Apply"
    /\ cfg.Filter = <<"a", " ", "b">> /\ cfg.Exclude = NoPattern
    /\ Kept(Corpus[3]) /\ ~Kept(Corpus[2])

(***************************************************************************)
(* The sequential strategy as a function of the list of sources, the      *)
(* cache it starts from and the answer each source gets, cache I/O         *)
(* succeeding: fetchOne for one source, then the loop of FetchFeeds.       *)
(***************************************************************************)
SequentialFetchOne(c, url, resp, now) ==
    LET m == LoadMetadata(c, url, "ok")
        start == Local("loadMetadata", 1, m, Request(m), NoResponse,
                       FetchResult(url, NilSlice, FALSE, ""), ZeroCachedFeed)
        after == AfterDo(start, url, resp)
        loaded == LoadEntries(c, url, "ok")
        saved == SaveEntries(c, url, after.result.Entries, now, "ok").cache
        stored == SaveMetadata(saved, url, NewMetadata(now, resp), "ok", "ok").cache
    IN  IF ~ParsesAsURL(url)
        THEN [result |-> [start.result EXCEPT !.Error = "create request"],
              cache |-> c]
        ELSE IF after.pc = "fallback"
        THEN [result |-> WithFallback(after.result, loaded), cache |-> c]
        ELSE IF after.pc = "notModified"
        THEN [result |-> WithNotModified(after.result, loaded), cache |-> c]
        ELSE IF after.pc = "return"
        THEN [result |-> after.result, cache |-> c]
        ELSE [result |-> after.result, cache |-> stored]

RECURSIVE SequentialFetchFeeds(_, _, _, _)
SequentialFetchFeeds(c, urls, resps, now) ==
    IF urls = <<>> THEN [results |-> <<>>, cache |-> c]
    ELSE LET k == Len(urls)
             before == SequentialFetchFeeds(c, SubSeq(urls, 1, k - 1), resps, now)
             one == SequentialFetchOne(before.cache, urls[k], resps[k], now)
         IN  [results |-> Append(before.results, one.result),
              cache |-> one.cache]

\* a response of the kind the log of a source records: its outcome and, for
\* a parsed document, the document with the logged tag; a source that got
\* no answer counts as one whose request failed
Answered(l) ==
    IF l.outcome \in {"none", "create"}
    THEN Response(TRUE, 0, FALSE, FALSE, NoDocument)
    ELSE CHOOSE r \in Responses : Outcome(r) = l.outcome /\ r.doc.ETag = l.etag

\* the cache the current run started from: empty before the first run, and
\* before the second what the successful fetches of the first run stored
CacheAtStart ==
    IF run <= 1 THEN [p \in Paths |-> AbsentFile]
    ELSE SequentialFetchFeeds([p \in Paths |-> AbsentFile], feeds,
                              [i \in Sources |-> Answered(prevLog[i])], 1).cache

\* what the sequential strategy returns and leaves for the answers of the
\* current run
SequentialOutcome ==
    SequentialFetchFeeds(CacheAtStart, feeds,
                         [i \in Sources |-> Answered(log[i])], run)

\* a FetchResult as the comparison sees it
Compared(r) ==
    [URL |-> r.URL, Entries |-> r.Entries, Cached |-> r.Cached,
     failed |-> r.Error # ""]

DistinctKeys ==
    \A i, j \in 1..numFeeds : i # j => cachePath(feeds[i]) # cachePath(feeds[j])

\* C39: for sources with pairwise distinct cache keys, a run of either
\* strategy that has returned has returned the results (compared by URL:
\* entries, servedFromCache, error presence) and left the cache that the
\* sequential strategy returns and leaves from the same initial cache and
\* the same server responses, whatever the interleaving of the workers.
C39_ParallelEqualsSequential ==
    (mainPc = "returned" /\ run >= 1 /\ run <= 2 /\ DistinctKeys) =>
        /\ Len(results) = Len(SequentialOutcome.results)
        /\ {Compared(results[k]) : k \in 1..Len(results)}
             = {Compared(SequentialOutcome.results[k]) :
                    k \in 1..Len(SequentialOutcome.results)}
        /\ cache = SequentialOutcome.cache

\* the IDs of the n most recent of the entries, oldest first
MostRecentOldestFirst(entries, n) ==
    {[i \in 1..Len(s) |-> s[i].ID] :
        s \in {IF Len(t) <= n THEN t ELSE SubSeq(t, Len(t) - n + 1, Len(t)) :
                  t \in SortedByDate(entries)}}

\* C40: a posting run that finds empty tracking data posts the 10 most
\* recent articles, oldest first; a later run posts no article that a
\* first run was given and left out
C40_FirstRunLimit ==
    [][poster'.calls = poster.calls + 1 =>
          /\ poster.file = <<>> =>
                poster'.sent \in MostRecentOldestFirst(filtered.entries.elems,
                                                       MaxTwitterEntries)
          /\ poster.file # <<>> =>
                \A i \in 1..Len(poster'.sent) :
                    poster'.sent[i] \notin poster.leftOut]_vars

====
